---- MODULE Spec2Model ----
(***************************************************************************)
(* A state-machine model of the AR virtual desktop:                        *)
(*   - SurfaceDetector  (src/src/ar/SurfaceDetector.js, plane detection)   *)
(*   - DesktopPlacer    (src/src/ar/DesktopPlacer.js)                      *)
(*   - PhysicsWorld     (src/src/objects/Plate.js:162-412)                 *)
(*   - Plate            (src/unnamed/part_005)                             *)
(*   - DragController   (src/unnamed/part_004)                             *)
(*   - TouchHandler     (src/src/interaction/ThrowController.js:83-262)    *)
(*                                                                         *)
(* Units.  Heights are in decimetres (2.0 m = 20).  Polygon coordinates    *)
(* are in half metres, and calculatePolygonArea returns eighths of a       *)
(* square metre, so that Math.abs(area / 2) stays an integer:              *)
(* 3.0 m^2 = 24.  Opacities are in tenths (0.5 = 5).                       *)
(***************************************************************************)
EXTENDS Integers, Sequences, FiniteSets

\* null, where the value is a name (a plane, an input source, a plate).
NULL == "null"

\* A value that may be null when it is not a name: None is null, Some(x) is x.
None == <<>>
Some(x) == <<x>>
Val(o) == o[1]

VARIABLES
    \* ---- SurfaceDetector
    isReady,                  \* this.isReady
    planeDetectionSupported,  \* this.planeDetectionSupported
    planeMeshes,              \* this.planeMeshes: a Map, kept in insertion order
    selectedPlane,            \* this.selectedPlane: the planes the field refers to
    currentPointedPlane,      \* this.currentPointedPlane
    detectorOp,               \* the last SurfaceDetector call: its activePlanes,
                              \*   the planes whose mesh its sweep deleted and
                              \*   the hits its raycasts returned
    \* ---- SceneManager
    scene,                    \* the objects added to the scene
    \* ---- DesktopPlacer
    desktop,                  \* this.desktop
    desktopBounds,            \* this.desktopBounds
    isPlaced,                 \* this.isPlaced
    anchor,                   \* this.anchor
    nextDesktop,              \* identity of the next THREE.Mesh / bounds record
    calls,                    \* the placeDesktop / placeDesktopOnPlane calls
    \* ---- PhysicsWorld
    world,                    \* this.world: the bodies in the CANNON world
    desktopBodies,            \* this.desktopBodies
    plateBodies,              \* this.plateBodies
    physicsBounds,            \* PhysicsWorld.desktopBounds
    nextBody,                 \* identity of the next CANNON.Body
    boundaryCalls,            \* number of setupDesktopBoundaries calls so far
    accumulator,              \* this.world.accumulator: time yet to be simulated
    stepLog,                  \* the sub-steps of the latest step(deltaTime) call
    \* ---- PlateSpawner and its Plates
    plates,                   \* PlateSpawner.plates: the plate ids in spawn order
    plate,                    \* plate id -> [isDragging, body: [type, ...]]
    spawnCalls,               \* number of spawnPlates calls so far
    \* ---- TouchHandler
    isSelecting,              \* this.isSelecting
    inputSource,              \* this.inputSource
    selectedPlate,            \* this.selectedPlate
    touchEvent,               \* the callback the handler's latest call invoked
    touchStartPos,            \* this.touchStartPos
    touchHistory,             \* this.touchHistory
    \* ---- ARVirtualDesktop (main.js)
    lastFrameTime,            \* this.lastFrameTime, modulo 2
    isDesktopPlaced,          \* this.isDesktopPlaced
    session,                  \* this.session: "running", or "ended" (null)
    frameLog,                 \* the stages the latest _onXRFrame ran, in order
    \* ---- tracking runtime
    pressed,                  \* the input sources whose primary action is held
    pointerLost               \* the sources gone for good: no pose, no release

surfaceVars == <<isReady, planeDetectionSupported, planeMeshes, selectedPlane,
                 currentPointedPlane, detectorOp>>
placerVars  == <<desktop, desktopBounds, isPlaced, anchor, nextDesktop, calls>>
bodyVars    == <<world, desktopBodies, plateBodies, physicsBounds, nextBody,
                 boundaryCalls>>
stepVars    == <<accumulator, stepLog>>
physicsVars == <<bodyVars, stepVars>>
plateVars   == <<plates, plate, spawnCalls>>
touchVars   == <<isSelecting, inputSource, selectedPlate, touchEvent,
                 touchStartPos, touchHistory, pressed, pointerLost>>

appVars     == <<lastFrameTime, isDesktopPlaced, session, frameLog>>

vars == <<surfaceVars, scene, placerVars, physicsVars, plateVars, touchVars,
          appVars>>

(***************************************************************************)
(* Small helpers on sequences.                                             *)
(***************************************************************************)
Range(s) == {s[i] : i \in 1..Len(s)}

Abs(n) == IF n < 0 THEN -n ELSE n

\* The sequences without repetition over the set S (an iteration order of a
\* JavaScript Set whose members are drawn from S).
RECURSIVE Orderings(_)
Orderings(S) ==
    IF S = {} THEN {<<>>}
    ELSE UNION {{<<x>> \o rest : rest \in Orderings(S \ {x})} : x \in S}

DistinctSeqs(S) == UNION {Orderings(T) : T \in SUBSET S}

(***************************************************************************)
(* The tracking runtime: planes, their per-frame attributes, pointers.     *)
(***************************************************************************)
Planes == {"p1", "p2"}

\* Polygons, as ordered points in the plane's local frame (half metres).
Pt(x, z) == [x |-> x, z |-> z]
PolySmall == <<Pt(0, 0), Pt(2, 0), Pt(2, 1), Pt(0, 1)>>   \* 1.0 m x 0.5 m
PolyLarge == <<Pt(0, 0), Pt(5, 0), Pt(5, 4), Pt(0, 4)>>   \* 2.5 m x 2.0 m
PolyEmpty == <<>>

\* What a frame says about one reported plane: its orientation, the pose
\* frame.getPose gives for its planeSpace (None, or its height in decimetres:
\* 1 floor-like, 8 table-like, 25 ceiling-like) and its polygon.
Sample(o, pose, polygon) == [orientation |-> o, pose |-> pose, polygon |-> polygon]

PlaneSamples ==
    {Sample("vertical", Some(8), Some(PolySmall)),
     Sample("horizontal", None, Some(PolySmall)),
     Sample("horizontal", Some(25), Some(PolySmall)),
     Sample("horizontal", Some(1), Some(PolyLarge)),
     Sample("horizontal", Some(1), Some(PolySmall)),
     Sample("horizontal", Some(8), Some(PolySmall)),
     Sample("horizontal", Some(8), Some(PolyLarge)),
     Sample("horizontal", Some(8), Some(PolyEmpty)),
     Sample("horizontal", Some(8), None)}

\* frame.detectedPlanes: None, or the reported planes in iteration order with
\* this frame's attributes of each.
PlaneReports(orders) ==
    {None} \cup
    {Some(r) : r \in UNION {[order : {o}, attr : [Range(o) -> PlaneSamples]] :
                                o \in orders}}

\* One iteration order for each set of planes.
SomeOrder(S) == CHOOSE o \in Orderings(S) : TRUE

InputSources == {"left", "right"}

\* The pointers of a frame: session.inputSources in order, whether getPose
\* gives a targetRay pose for each, and what the raycaster finds for each
\* (source, plane): 0 for no intersection, else the distance of the hit.
PointerFrames(Srcs, Dists) ==
    UNION {[sources : {o}, pose : [Range(o) -> BOOLEAN],
            hit : [Range(o) -> [Planes -> Dists]]] : o \in DistinctSeqs(Srcs)}

\* One pointer that hits exactly one plane, or no pointer at all.
SimplePointerFrames ==
    {pf \in PointerFrames({"right"}, 0..1) :
        \A s \in Range(pf.sources) :
            /\ pf.pose[s]
            /\ Cardinality({p \in Planes : pf.hit[s][p] # 0}) = 1}

(***************************************************************************)
(* SurfaceDetector                                                         *)
(***************************************************************************)
CeilingHeight == 20      \* planeHeight > 2.0
FloorHeight == 5         \* planeHeight < 0.5
FloorArea == 24          \* area > 3.0
OpacityNormal == 5       \* opacity 0.5
OpacityHighlight == 8    \* opacity 0.8

\* _calculatePolygonArea: the shoelace sum, Math.abs(area / 2).
RECURSIVE ShoelaceSum(_, _)
ShoelaceSum(polygon, i) ==
    IF i > Len(polygon) THEN 0
    ELSE LET j == (i % Len(polygon)) + 1
         IN polygon[i].x * polygon[j].z - polygon[j].x * polygon[i].z
            + ShoelaceSum(polygon, i + 1)

calculatePolygonArea(polygon) ==
    IF Len(polygon) < 3 THEN 0 ELSE Abs(ShoelaceSum(polygon, 1))

\* A faulty filter, without the floor rule.
PassesFilterNoFloorRule(a) ==
    /\ a.orientation = "horizontal"
    /\ a.pose # None
    /\ ~(Val(a.pose) > CeilingHeight)

\* The filter of update's forEach body: TRUE when the plane reaches
\* activePlanes.add(plane).
PassesFilter(a) ==
    /\ a.orientation = "horizontal"
    /\ a.pose # None
    /\ ~(Val(a.pose) > CeilingHeight)
    /\ ~(/\ Val(a.pose) < FloorHeight
         /\ a.polygon # None
         /\ calculatePolygonArea(Val(a.polygon)) > FloorArea)

MeshKeys(meshes) == {meshes[i].plane : i \in 1..Len(meshes)}

MeshOf(meshes, p) == meshes[CHOOSE i \in 1..Len(meshes) : meshes[i].plane = p]

\* _createPlaneMesh: a unit PlaneGeometry (geometry None) at the origin with
\* opacity 0.5.
createPlaneMesh(p) ==
    [plane |-> p, position |-> 0, geometry |-> None, opacity |-> OpacityNormal]

\* _updatePlaneMesh: position from the pose, geometry from the polygon when
\* there is one with at least one point.
updatePlaneMesh(mesh, a) ==
    IF a.pose = None THEN mesh
    ELSE [mesh EXCEPT
            !.position = Val(a.pose),
            !.geometry = IF a.polygon # None /\ Len(Val(a.polygon)) > 0
                         THEN a.polygon ELSE @]

\* The detectedPlanes.forEach loop of update from the i-th reported plane on.
RECURSIVE IngestFrom(_, _, _)
IngestFrom(meshes, report, i) ==
    IF i > Len(report.order) THEN meshes
    ELSE LET p == report.order[i]
             a == report.attr[p]
         IN IF ~PassesFilter(a) THEN IngestFrom(meshes, report, i + 1)
            ELSE LET withMesh == IF p \in MeshKeys(meshes) THEN meshes
                                 ELSE Append(meshes, createPlaneMesh(p))
                     updated == [k \in 1..Len(withMesh) |->
                                    IF withMesh[k].plane = p
                                    THEN updatePlaneMesh(withMesh[k], a)
                                    ELSE withMesh[k]]
                 IN IngestFrom(updated, report, i + 1)

\* activePlanes after the forEach loop.
ActivePlanes(report) ==
    {p \in Range(report.order) : PassesFilter(report.attr[p])}

\* A faulty sweep, which deletes nothing.
SweepAccumulate(meshes, active) == meshes

\* The sweep: the planeMeshes.forEach that deletes the meshes of the planes
\* not in activePlanes.
Sweep(meshes, active) ==
    LET Keep(m) == m.plane \in active
    IN SelectSeq(meshes, Keep)

\* _getPointedPlaneInternal: the plane of the nearest hit, scanning the
\* input sources in order and, for each, the meshes in Map order.
\* best.plane = NULL stands for closestDistance = Infinity.
RECURSIVE ScanMeshes(_, _, _, _, _)
ScanMeshes(best, meshes, pf, s, k) ==
    IF k > Len(meshes) THEN best
    ELSE LET d == pf.hit[s][meshes[k].plane]
             better == d # 0 /\ (best.plane = NULL \/ d < best.distance)
         IN ScanMeshes(IF better THEN [plane |-> meshes[k].plane, distance |-> d]
                       ELSE best,
                       meshes, pf, s, k + 1)

\* A faulty scan, which stops at the first input source without a pose.
RECURSIVE ScanSourcesUntilDropout(_, _, _, _)
ScanSourcesUntilDropout(best, meshes, pf, i) ==
    IF i > Len(pf.sources) THEN best
    ELSE LET s == pf.sources[i]
         IN IF ~pf.pose[s] THEN best
            ELSE ScanSourcesUntilDropout(ScanMeshes(best, meshes, pf, s, 1),
                                         meshes, pf, i + 1)

RECURSIVE ScanSources(_, _, _, _)
ScanSources(best, meshes, pf, i) ==
    IF i > Len(pf.sources) THEN best
    ELSE LET s == pf.sources[i]
         IN IF ~pf.pose[s] THEN ScanSources(best, meshes, pf, i + 1)
            ELSE ScanSources(ScanMeshes(best, meshes, pf, s, 1), meshes, pf, i + 1)

getPointedPlaneInternal(supported, meshes, pf) ==
    IF ~supported \/ Len(meshes) = 0 THEN NULL
    ELSE IF Len(pf.sources) = 0 THEN NULL
    ELSE ScanSources([plane |-> NULL, distance |-> 0], meshes, pf, 1).plane

\* What raycaster.intersectObject returned in a call: the (distance, plane)
\* of every hit of a source that has a pose on a mesh.
RayHits(meshes, pf) ==
    {<<pf.hit[s][p], p>> : s \in {t \in Range(pf.sources) : pf.pose[t]},
                          p \in MeshKeys(meshes)}
        \ {<<0, p>> : p \in Planes}

\* A faulty highlight, which never resets the previous plane.
HighlightNoReset(meshes, previous, pointed) ==
    [k \in 1..Len(meshes) |->
        IF pointed # NULL /\ meshes[k].plane = pointed
        THEN [meshes[k] EXCEPT !.opacity = OpacityHighlight]
        ELSE meshes[k]]

\* _updatePointedPlaneHighlight: the opacities after the call.
HighlightMeshes(meshes, previous, pointed) ==
    LET reset == [k \in 1..Len(meshes) |->
                    IF previous # NULL /\ previous # pointed
                       /\ meshes[k].plane = previous
                    THEN [meshes[k] EXCEPT !.opacity = OpacityNormal]
                    ELSE meshes[k]]
    IN [k \in 1..Len(reset) |->
            IF pointed # NULL /\ reset[k].plane = pointed
            THEN [reset[k] EXCEPT !.opacity = OpacityHighlight]
            ELSE reset[k]]

PlaneMeshObj(p) == <<"planeMesh", p>>

\* update(frame, referenceSpace), in a callback that goes on to add the
\* objects `added` to the scene
SurfaceUpdateAdding(frame, added) ==
    IF ~isReady \/ ~planeDetectionSupported \/ frame.detectedPlanes = None
    THEN /\ detectorOp' = [op |-> "skip", active |-> {}, retired |-> {}, hits |-> {}]
         /\ scene' = scene \cup added
         /\ UNCHANGED <<isReady, planeDetectionSupported, planeMeshes,
                        selectedPlane, currentPointedPlane>>
    ELSE LET report == Val(frame.detectedPlanes)
             ingested == IngestFrom(planeMeshes, report, 1)
             swept == Sweep(ingested, ActivePlanes(report))
             pointed == getPointedPlaneInternal(planeDetectionSupported, swept,
                                                frame.pointers)
         IN /\ planeMeshes' = HighlightMeshes(swept, currentPointedPlane, pointed)
            /\ currentPointedPlane' = pointed
            /\ scene' = ((scene \ {PlaneMeshObj(p) : p \in Planes})
                            \cup {PlaneMeshObj(p) : p \in MeshKeys(swept)})
                            \cup added
            /\ detectorOp' = [op |-> "update", active |-> ActivePlanes(report),
                               retired |-> MeshKeys(ingested) \ MeshKeys(swept),
                               hits |-> RayHits(swept, frame.pointers)]
            /\ UNCHANGED <<isReady, planeDetectionSupported, selectedPlane>>

\* update(frame, referenceSpace)
SurfaceUpdate(frame) == SurfaceUpdateAdding(frame, {})

\* A faulty setSelectedPlane, which adds the plane to the selection.
SetSelectedPlaneAccumulate(p) ==
    /\ selectedPlane' = selectedPlane \cup {p}
    /\ detectorOp' = [op |-> "select", active |-> {}, retired |-> {}, hits |-> {}]
    /\ UNCHANGED <<isReady, planeDetectionSupported, planeMeshes,
                   currentPointedPlane, scene>>

\* setSelectedPlane(plane)
SetSelectedPlane(p) ==
    /\ selectedPlane' = {p}
    /\ detectorOp' = [op |-> "select", active |-> {}, retired |-> {}, hits |-> {}]
    /\ UNCHANGED <<isReady, planeDetectionSupported, planeMeshes,
                   currentPointedPlane, scene>>

\* getSelectedPlane()
getSelectedPlane ==
    IF selectedPlane = {} THEN NULL ELSE CHOOSE p \in selectedPlane : TRUE

\* The constructor runs _initialize to its end (it awaits nothing): enabled
\* says whether session.enabledFeatures includes 'plane-detection'.
SurfaceInit(enabled) ==
    /\ isReady = TRUE
    /\ planeDetectionSupported \in enabled
    /\ planeMeshes = <<>>
    /\ selectedPlane = {}
    /\ currentPointedPlane = NULL
    /\ detectorOp = [op |-> "new", active |-> {}, retired |-> {}, hits |-> {}]

\* The frames the surface specification draws: every plane report in one
\* iteration order, with the pointers of SimplePointerFrames.
SurfaceFrames ==
    [detectedPlanes : PlaneReports({SomeOrder(S) : S \in SUBSET Planes}),
     pointers : SimplePointerFrames]

\* The planes the filter specification reports, one a frame: heights on
\* both sides of 0.5 m and 2.0 m and at them, areas on both sides of 3.0 m^2
\* and at it, with the planes that are vertical or have no pose.
PolyExact == <<Pt(0, 0), Pt(6, 0), Pt(6, 2), Pt(0, 2)>>   \* 3.0 m x 1.0 m

FilterHeights == {-2, 1, 4, 5, 8, 12, 15, 20, 21, 25}

FilterSamples ==
    {Sample("vertical", Some(8), Some(PolySmall)),
     Sample("horizontal", None, Some(PolySmall))}
    \cup {Sample("horizontal", Some(h), poly) :
            h \in FilterHeights,
            poly \in {None, Some(PolyEmpty), Some(PolySmall), Some(PolyExact),
                      Some(PolyLarge)}}

MaxDistance == 2

\* The pointers of the pointing specification: none, the left one, or the
\* left and the right one; each with or without a pose, every pattern of hits
\* for a source that has a pose (the right one missing, at distance 1 or at
\* the largest distance), and a would-be nearest hit on every plane for a
\* source that has none.
PointingFrames ==
    {pf \in PointerFrames({"left"}, 0..MaxDistance)
            \cup {f \in PointerFrames(InputSources, 0..MaxDistance) :
                     /\ f.sources = <<"left", "right">>
                     /\ \A p \in Planes : f.hit["right"][p] \in {0, 1, MaxDistance}} :
        \A s \in Range(pf.sources) :
            ~pf.pose[s] => \A p \in Planes : pf.hit[s][p] = 1}

\* The plane reports of the pointing specification: any set of planes, the
\* first at table height or lower, the second at table height.
PointingReports ==
    {Some([order |-> SomeOrder(S),
           attr |-> [q \in S |-> Sample("horizontal",
                                        Some(IF q = "p1" THEN h ELSE 8),
                                        Some(PolySmall))]]) :
        S \in SUBSET Planes, h \in {1, 8}}

NoPointers == [sources |-> <<>>, pose |-> <<>>, hit |-> <<>>]

FilterFrame(p, a) ==
    [detectedPlanes |-> Some([order |-> <<p>>, attr |-> [q \in {p} |-> a]]),
     pointers |-> NoPointers]

(***************************************************************************)
(* DesktopPlacer.  Lengths are in millimetres; angles in degrees.          *)
(***************************************************************************)
DESKTOP_MIN_SIZE == 400       \* DESKTOP.MIN_SIZE 0.4
DESKTOP_MAX_SIZE == 2000      \* DESKTOP.MAX_SIZE 2.0
DESKTOP_THICKNESS == 20       \* DESKTOP.THICKNESS 0.02
DefaultWidth == 800           \* fallback width 0.8
DefaultDepth == 600           \* fallback depth 0.6

\* The number of placeDesktop / placeDesktopOnPlane calls of a session.
MaxCalls == 2

CallIds == 1..MaxCalls

Max(a, b) == IF a > b THEN a ELSE b
Min(a, b) == IF a < b THEN a ELSE b

\* A faulty clamp, which has no lower limit.
clampBelowMax(value, min, max) == Min(max, value)

\* MathUtils.clamp
clamp(value, min, max) == Max(min, Min(max, value))

\* The poses the runtime gives for a hit test result or a plane space:
\* None (no pose), or a position with an orientation given by its YXZ Euler
\* angles (yaw about the up axis, then pitch and roll).
PlacementPoses ==
    {None,
     Some([position |-> [x |-> 0, y |-> 700, z |-> 0],
           orientation |-> [yaw |-> 0, pitch |-> 0, roll |-> 0]]),
     Some([position |-> [x |-> 0, y |-> 800, z |-> 0],
           orientation |-> [yaw |-> 90, pitch |-> 30, roll |-> 0]]),
     Some([position |-> [x |-> 0, y |-> 800, z |-> 0],
           orientation |-> [yaw |-> 270, pitch |-> -30, roll |-> 10]])}

\* detectedSize: None, or {width, depth} (multiples of 20 mm).
DetectedSizes ==
    {None, Some([width |-> 1000, depth |-> 600]), Some([width |-> 0, depth |-> 600]),
     Some([width |-> 200, depth |-> 3000])}

\* The width and depth _createDesktop chooses.
DesktopSize(detectedSize) ==
    IF detectedSize # None /\ Val(detectedSize).width > 0 /\ Val(detectedSize).depth > 0
    THEN [width |-> clamp((Val(detectedSize).width * 9) \div 10,
                          DESKTOP_MIN_SIZE, DESKTOP_MAX_SIZE),
          depth |-> clamp((Val(detectedSize).depth * 9) \div 10,
                          DESKTOP_MIN_SIZE, DESKTOP_MAX_SIZE)]
    ELSE [width |-> clamp(DefaultWidth, DESKTOP_MIN_SIZE, DESKTOP_MAX_SIZE),
          depth |-> clamp(DefaultDepth, DESKTOP_MIN_SIZE, DESKTOP_MAX_SIZE)]

\* An angle in degrees as atan2 gives it, in (-180, 180]
NormDeg(a) == IF a % 360 > 180 THEN (a % 360) - 360 ELSE a % 360

\* new THREE.Euler().setFromQuaternion(orientation, 'YXZ'), for an
\* orientation whose pitch is within (-90, 90): the yaw comes from atan2.
EulerYXZ(orientation) ==
    [yaw |-> NormDeg(orientation.yaw), pitch |-> orientation.pitch,
     roll |-> NormDeg(orientation.roll)]

\* A faulty leveling, which keeps the whole orientation.
YawOnlyKeepsTilt(orientation) == EulerYXZ(orientation)

\* The forced-level orientation: Euler(0, euler.y, 0, 'YXZ').
YawOnly(orientation) ==
    [yaw |-> EulerYXZ(orientation).yaw, pitch |-> 0, roll |-> 0]

\* The bounds record _createDesktop stores; ref is the identity of the object.
BoundsRecord(ref, position, orientation, detectedSize) ==
    LET size == DesktopSize(detectedSize)
    IN [ref |-> ref,
        width |-> size.width,
        depth |-> size.depth,
        height |-> DESKTOP_THICKNESS,
        minX |-> -(size.width \div 2),
        maxX |-> size.width \div 2,
        minZ |-> -(size.depth \div 2),
        maxZ |-> size.depth \div 2,
        centerY |-> position.y + DESKTOP_THICKNESS,
        position |-> position,
        quaternion |-> YawOnly(orientation)]

DesktopObj(ref) == <<"desktop", ref>>

\* _createDesktop(position, orientation, detectedSize): a new mesh is added
\* to the scene and a new bounds record replaces this.desktopBounds.
CreateDesktop(pose, detectedSize) ==
    /\ desktop' = nextDesktop
    /\ scene' = scene \cup {DesktopObj(nextDesktop)}
    /\ desktopBounds' = Some(BoundsRecord(nextDesktop, pose.position,
                                          pose.orientation, detectedSize))
    /\ nextDesktop' = nextDesktop + 1

\* A faulty placement, which builds the desktop before it looks at the pose.
PlaceCreatesBeforePose(c, pose, detectedSize) ==
    /\ calls[c].pc = "idle"
    /\ \A b \in CallIds : b < c => calls[b].pc # "idle"
    /\ IF isPlaced
       THEN /\ calls' = [calls EXCEPT ![c] = [pc |-> "returned", pose |-> pose,
                                              result |-> desktopBounds]]
            /\ UNCHANGED <<desktop, desktopBounds, isPlaced, anchor, nextDesktop, scene>>
       ELSE /\ CreateDesktop(IF pose = None
                             THEN [position |-> [x |-> 0, y |-> 0, z |-> 0],
                                   orientation |-> [yaw |-> 0, pitch |-> 0, roll |-> 0]]
                             ELSE Val(pose), detectedSize)
            /\ calls' = [calls EXCEPT ![c] =
                            [pc |-> IF pose = None THEN "threw" ELSE "awaitAnchor",
                             pose |-> pose, result |-> None]]
            /\ UNCHANGED <<isPlaced, anchor>>

\* The body shared by placeDesktop and placeDesktopOnPlane, up to the await
\* of createAnchor: return the bounds when placed, throw without a pose,
\* else build the desktop and wait for the anchor.
PlaceBegin(c, pose, detectedSize) ==
    /\ calls[c].pc = "idle"
    /\ \A b \in CallIds : b < c => calls[b].pc # "idle"
    /\ IF isPlaced
       THEN /\ calls' = [calls EXCEPT ![c] = [pc |-> "returned", pose |-> pose,
                                              result |-> desktopBounds]]
            /\ UNCHANGED <<desktop, desktopBounds, isPlaced, anchor, nextDesktop, scene>>
       ELSE IF pose = None
       THEN /\ calls' = [calls EXCEPT ![c] = [pc |-> "threw", pose |-> pose,
                                              result |-> None]]
            /\ UNCHANGED <<desktop, desktopBounds, isPlaced, anchor, nextDesktop, scene>>
       ELSE /\ CreateDesktop(Val(pose), detectedSize)
            /\ calls' = [calls EXCEPT ![c] = [pc |-> "awaitAnchor", pose |-> pose,
                                              result |-> None]]
            /\ UNCHANGED <<isPlaced, anchor>>

\* placeDesktop(hitTestResult, frame, referenceSpace, detectedSize): the pose
\* is hitTestResult.getPose(referenceSpace).
PlaceDesktop(c, pose, detectedSize) ==
    PlaceBegin(c, pose, detectedSize)

\* placeDesktopOnPlane(plane, frame, referenceSpace, detectedSize): the pose
\* is frame.getPose(plane.planeSpace, referenceSpace).
PlaceDesktopOnPlane(c, pose, detectedSize) ==
    PlaceBegin(c, pose, detectedSize)

\* The continuation after `await createAnchor(...)`: the anchor is stored when
\* the promise resolved, the rejection is caught when it did not; then
\* isPlaced is set and the current this.desktopBounds is returned.
AnchorSettles(c, resolved) ==
    /\ calls[c].pc = "awaitAnchor"
    /\ anchor' = IF resolved THEN c ELSE anchor
    /\ isPlaced' = TRUE
    /\ calls' = [calls EXCEPT ![c].pc = "returned", ![c].result = desktopBounds]
    /\ UNCHANGED <<desktop, desktopBounds, nextDesktop, scene>>

PlacerInit ==
    /\ desktop = 0
    /\ desktopBounds = None
    /\ isPlaced = FALSE
    /\ anchor = 0
    /\ nextDesktop = 1
    /\ calls = [c \in CallIds |->
                  [pc |-> "idle", pose |-> None, result |-> None]]

(***************************************************************************)
(* PhysicsWorld.  A body in the world is named by a handle: its identity,  *)
(* its role and, for a floor or a wall, the setupDesktopBoundaries call    *)
(* that created it and its place in that call's set (0 the floor, 1..4     *)
(* the left, right, front and back walls).                                 *)
(***************************************************************************)
\* The number of setupDesktopBoundaries calls of a session.
MaxBoundaryCalls == 3

WallCount == 4

\* The two CANNON.Material instances _initialize creates, and the contact
\* materials it registers between them.
PlateMaterial == "plateMaterial"
DesktopMaterial == "desktopMaterial"
ContactMaterials == {<<PlateMaterial, PlateMaterial>>, <<PlateMaterial, DesktopMaterial>>}

\* A faulty choice of material: every plate body gets a material of its own.
BodyMaterialOwn(role) ==
    IF role = "plate" THEN "ownMaterial" ELSE DesktopMaterial

\* The material a body is created with: getPlateMaterial() for a plate's
\* body, this.desktopMaterial for the floor and the walls.
BodyMaterial(role) ==
    IF role = "plate" THEN PlateMaterial ELSE DesktopMaterial

BodyRef(id, role, gen, slot) ==
    [id |-> id, role |-> role, gen |-> gen, slot |-> slot,
     material |-> BodyMaterial(role)]

PlateBodyRef(id) == BodyRef(id, "plate", 0, 0)

\* The bounds records handed to setupDesktopBoundaries.
StageBounds ==
    {BoundsRecord(ref, [x |-> 0, y |-> 800, z |-> 0],
                  [yaw |-> 0, pitch |-> 0, roll |-> 0], None) : ref \in 1..2}

\* The bounds records handed to spawnPlates: the smallest desktop (0.4 m x
\* 0.4 m) and the default one, both unturned, and the longest and narrowest
\* one (2.0 m x 0.4 m) turned by 90 degrees.
SpawnBounds ==
    {BoundsRecord(1, [x |-> 0, y |-> 800, z |-> 0],
                  [yaw |-> 0, pitch |-> 0, roll |-> 0], size) :
        size \in {Some([width |-> 440, depth |-> 440]), None}}
      \cup {BoundsRecord(1, [x |-> 0, y |-> 800, z |-> 0],
                         [yaw |-> 90, pitch |-> 0, roll |-> 0],
                         Some([width |-> 2400, depth |-> 440]))}

\* The floor and the four walls setupDesktopBoundaries creates, in the order
\* it pushes them on desktopBodies.
NewBoundaryBodies(firstId, gen) ==
    [k \in 1..(WallCount + 1) |->
        BodyRef(firstId + k - 1, IF k = 1 THEN "floor" ELSE "wall", gen, k - 1)]

\* A faulty setupDesktopBoundaries, which leaves the old bodies in the world.
SetupKeepsOldBodies(bounds) ==
    /\ boundaryCalls < MaxBoundaryCalls
    /\ LET created == NewBoundaryBodies(nextBody, boundaryCalls + 1)
       IN /\ physicsBounds' = Some(bounds)
          /\ world' = world \cup Range(created)
          /\ desktopBodies' = created
          /\ nextBody' = nextBody + Len(created)
    /\ boundaryCalls' = boundaryCalls + 1
    /\ UNCHANGED <<plateBodies, stepVars>>

\* setupDesktopBoundaries(bounds)
SetupDesktopBoundaries(bounds) ==
    /\ boundaryCalls < MaxBoundaryCalls
    /\ LET created == NewBoundaryBodies(nextBody, boundaryCalls + 1)
       IN /\ physicsBounds' = Some(bounds)
          /\ world' = (world \ Range(desktopBodies)) \cup Range(created)
          /\ desktopBodies' = created
          /\ nextBody' = nextBody + Len(created)
    /\ boundaryCalls' = boundaryCalls + 1
    /\ UNCHANGED <<plateBodies, stepVars>>

\* A faulty addPlateBody, which lists the body twice.
addPlateBodyTwice(st, id) ==
    [world |-> st.world \cup {PlateBodyRef(id)},
     plateBodies |-> st.plateBodies \o <<id, id>>]

\* addPlateBody(body), on the record st of the world and the plateBodies
\* list
addPlateBody(st, id) ==
    [world |-> st.world \cup {PlateBodyRef(id)},
     plateBodies |-> Append(st.plateBodies, id)]

\* The plates with the ids ids[i..] are constructed in turn; each adds its
\* body.
RECURSIVE AddPlateBodies(_, _, _)
AddPlateBodies(st, ids, i) ==
    IF i > Len(ids) THEN st
    ELSE AddPlateBodies(addPlateBody(st, ids[i]), ids, i + 1)

\* removePlateBody(body)
removePlateBody(w, bodies, id) ==
    [world |-> w \ {PlateBodyRef(id)},
     plateBodies |-> SelectSeq(bodies, LAMBDA b : b # id)]

\* PhysicsWorld.dispose(): every listed body leaves the world, the lists
\* are emptied and this.world is dropped.
PhysicsDispose ==
    /\ world' = {}
    /\ desktopBodies' = <<>>
    /\ plateBodies' = <<>>
    /\ UNCHANGED <<physicsBounds, nextBody, boundaryCalls, stepVars>>

PhysicsInit ==
    /\ world = {}
    /\ desktopBodies = <<>>
    /\ plateBodies = <<>>
    /\ physicsBounds = None
    /\ nextBody = 1
    /\ boundaryCalls = 0
    /\ accumulator = 0
    /\ stepLog = <<>>

\* Times of the simulation are in ticks of 1/600 s.
TIME_STEP == 10                 \* PHYSICS.TIME_STEP 1 / 60
MAX_SUB_STEPS == 3              \* PHYSICS.MAX_SUB_STEPS

\* The time between two frames, (time - this.lastFrameTime) / 1000, of a
\* display that shows 60 frames a second.
FrameDelta == 10

\* World.step(dt, timeSinceLastCalled, maxSubSteps) of the engine, on the
\* accumulator acc, running n sub-steps: the accumulator takes the time
\* since the last call, gives dt to each sub-step and keeps what is left
\* below dt.  The engine runs sub-steps while the accumulator holds a dt and
\* maxSubSteps is not reached, and may stop earlier when the loop has used
\* more than dt of wall-clock time.
WorldStep(acc, dt, timeSinceLastCalled, maxSubSteps, n) ==
    [accumulator |-> (acc + timeSinceLastCalled - n * dt) % dt,
     stepLog |-> [i \in 1..n |-> dt]]

\* The numbers of sub-steps World.step can run.
SubStepCounts(acc, dt, timeSinceLastCalled, maxSubSteps) ==
    LET full == Min((acc + timeSinceLastCalled) \div dt, maxSubSteps)
    IN IF full = 0 THEN {0} ELSE 1..full

\* A faulty call, which leaves maxSubSteps to the engine's default of 10.
StepArgumentsDefaultMax(deltaTime) ==
    [dt |-> TIME_STEP, timeSinceLastCalled |-> deltaTime, maxSubSteps |-> 10]

\* The arguments of this.world.step(PHYSICS.TIME_STEP, deltaTime,
\* PHYSICS.MAX_SUB_STEPS)
StepArguments(deltaTime) ==
    [dt |-> TIME_STEP, timeSinceLastCalled |-> deltaTime,
     maxSubSteps |-> MAX_SUB_STEPS]

\* PhysicsWorld.step(deltaTime); the sub-steps move the dynamic bodies,
\* whose positions are outside the state.
PhysicsStep(deltaTime) ==
    \E args \in {StepArguments(deltaTime)} :
       \E n \in SubStepCounts(accumulator, args.dt, args.timeSinceLastCalled,
                              args.maxSubSteps) :
          LET r == WorldStep(accumulator, args.dt, args.timeSinceLastCalled,
                             args.maxSubSteps, n)
          IN /\ accumulator' = r.accumulator
             /\ stepLog' = r.stepLog

(***************************************************************************)
(* Plate and PlateSpawner.  Plate positions and velocities are not part of *)
(* the state.                                                              *)
(***************************************************************************)
MIN_PLATES == 5
MAX_PLATES == 8

\* The number of spawnPlates calls of a session.
MaxSpawnCalls == 1

\* The greatest common divisor of two naturals
RECURSIVE GCD(_, _)
GCD(a, b) == IF b = 0 THEN a ELSE GCD(b, a % b)

\* The fraction num / den in lowest terms
Fraction(num, den) ==
    LET g == GCD(num, den) IN <<num \div g, den \div g>>

\* A velocity in m/s: the vector n / d in lowest terms (d > 0), scaled by
\* the square root of s2[1] / s2[2] (the factor normalize().multiplyScalar
\* leaves).
Velocity(n, d) ==
    LET g == GCD(GCD(Abs(n[1]), Abs(n[2])), GCD(Abs(n[3]), d))
    IN [n |-> <<n[1] \div g, n[2] \div g, n[3] \div g>>, d |-> d \div g,
        s2 |-> <<1, 1>>]

\* Vec3.setZero()
ZeroVelocity == Velocity(<<0, 0, 0>>, 1)

\* new THREE.Vector3(), new CANNON.Vec3(): positions are in millimetres
Origin == [x |-> 0, y |-> 0, z |-> 0]

\* new Plate(position, ...): _createMesh leaves the mesh at the origin,
\* _createPhysicsBody makes a dynamic body with collision response enabled,
\* sharing the world's plate material, and sets it at the position.
NewPlate(id, position) ==
    [isDragging |-> FALSE,
     meshPosition |-> Origin,
     body |-> [id |-> id, type |-> "DYNAMIC", collisionResponse |-> TRUE,
               material |-> BodyMaterial("plate"), position |-> position,
               velocity |-> ZeroVelocity, angularVelocity |-> <<0, 0, 0>>]]

\* this.body = null
NullBody == [id |-> 0, type |-> "null", collisionResponse |-> FALSE, material |-> NULL,
             position |-> Origin,
             velocity |-> ZeroVelocity, angularVelocity |-> <<0, 0, 0>>]

\* Plate.dispose(), on the record st of the world, the plateBodies list and
\* the plates: the body leaves the world and the handle is cleared.
PlateDispose(st, p) ==
    IF st.plate[p].body.id # 0
    THEN LET r == removePlateBody(st.world, st.plateBodies, st.plate[p].body.id)
         IN [world |-> r.world, plateBodies |-> r.plateBodies,
             plate |-> [st.plate EXCEPT ![p].body = NullBody]]
    ELSE st

\* plates.forEach(plate => plate.dispose()) from the i-th plate on
RECURSIVE DisposeFrom(_, _, _)
DisposeFrom(st, list, i) ==
    IF i > Len(list) THEN st
    ELSE DisposeFrom(PlateDispose(st, list[i]), list, i + 1)

\* A faulty PlateSpawner.dispose, which keeps the list of plates.
SpawnerDisposeKeepsList(list) == list

\* The list PlateSpawner.dispose leaves: this.plates = []
SpawnerDisposedList(list) == <<>>

\* A faulty setKinematic, which does nothing on release.
setKinematicKeepsMode(pl, kinematic) ==
    IF kinematic
    THEN [pl EXCEPT !.isDragging = TRUE,
          !.body = [pl.body EXCEPT !.type = "KINEMATIC",
                                   !.velocity = ZeroVelocity,
                                   !.angularVelocity = <<0, 0, 0>>,
                                   !.collisionResponse = FALSE]]
    ELSE pl

\* A faulty setKinematic, which leaves the velocities as they are.
setKinematicKeepsVelocity(pl, kinematic) ==
    IF kinematic
    THEN [pl EXCEPT !.isDragging = TRUE,
          !.body = [pl.body EXCEPT !.type = "KINEMATIC",
                                   !.collisionResponse = FALSE]]
    ELSE [pl EXCEPT !.isDragging = FALSE,
          !.body = [pl.body EXCEPT !.type = "DYNAMIC", !.collisionResponse = TRUE]]

\* Plate.setKinematic(kinematic)
setKinematic(pl, kinematic) ==
    IF kinematic
    THEN [pl EXCEPT !.isDragging = TRUE,
          !.body = [pl.body EXCEPT !.type = "KINEMATIC",
                                   !.velocity = ZeroVelocity,
                                   !.angularVelocity = <<0, 0, 0>>,
                                   !.collisionResponse = FALSE]]
    ELSE [pl EXCEPT !.isDragging = FALSE,
          !.body = [pl.body EXCEPT !.type = "DYNAMIC", !.collisionResponse = TRUE]]

\* The square of a vector's length
Dot(n) == n[1] * n[1] + n[2] * n[2] + n[3] * n[3]

\* A faulty cap, which lets every speed through.
ExceedsNever(v, max) == FALSE

\* speed > max, for speed = velocity3D.length()
Exceeds(v, max) == Dot(v.n) * v.s2[1] > max * max * v.d * v.d * v.s2[2]

MaxVelocity == 5                \* maxVelocity = 5.0 m/s
FallTolerance == 100            \* 0.1 below and above the desktop's position
DragPadding == 50               \* padding = 0.05
DragLift == 20                  \* centerY + 0.02 (updateDrag)
DragLiftXR == 30                \* centerY + 0.03 (updateDragXR)

\* `body.velocity.scale(maxVelocity / speed, body.velocity)`: the vector
\* keeps its direction and gets the length maxVelocity.
ScaleToMax(v) ==
    [v EXCEPT !.s2 = Fraction(MaxVelocity * MaxVelocity * v.d * v.d, Dot(v.n))]

\* `body.velocity.y = Math.max(0, body.velocity.y)`
NoDownward(v) ==
    IF v.n[2] >= 0 THEN v
    ELSE IF v.n[1] = 0 /\ v.n[3] = 0 THEN ZeroVelocity
    ELSE [v EXCEPT !.n[2] = 0]

\* `minY !== undefined && body.position.y < minY - 0.1`, for the
\* PhysicsWorld.desktopBounds bounds (None: not set yet)
FellBelow(body, bounds) ==
    bounds # None /\ body.position.y < Val(bounds).position.y - FallTolerance

\* A faulty Plate.update, which never limits the speed.
PlateUpdateUnclamped(pl, bounds) ==
    IF pl.isDragging THEN pl
    ELSE LET fell == FellBelow(pl.body, bounds)
         IN [pl EXCEPT !.meshPosition = pl.body.position,
                       !.body.velocity = IF fell THEN NoDownward(@) ELSE @,
                       !.body.position.y =
                           IF fell THEN Val(bounds).position.y + FallTolerance ELSE @]

\* A faulty Plate.update, which leaves a body that fell where it is.
PlateUpdateUncorrected(pl, bounds) ==
    IF pl.isDragging THEN pl
    ELSE [pl EXCEPT !.meshPosition = pl.body.position,
                    !.body.velocity =
                        IF Exceeds(@, MaxVelocity) THEN ScaleToMax(@) ELSE @]

\* Plate.update(), for a plate that has a body: unless the plate is being
\* dragged, the mesh takes the body's position, a speed above maxVelocity
\* is scaled down to it, and a body more than 0.1 below the desktop's
\* position is put 0.1 above it, without its downward velocity.
PlateUpdate(pl, bounds) ==
    IF pl.isDragging THEN pl
    ELSE LET clamped == IF Exceeds(pl.body.velocity, MaxVelocity)
                        THEN ScaleToMax(pl.body.velocity)
                        ELSE pl.body.velocity
             fell == FellBelow(pl.body, bounds)
         IN [pl EXCEPT !.meshPosition = pl.body.position,
                       !.body.velocity = IF fell THEN NoDownward(clamped) ELSE clamped,
                       !.body.position.y =
                           IF fell THEN Val(bounds).position.y + FallTolerance ELSE @]

\* PlateSpawner.update(): plates.forEach(plate => plate.update()), on the
\* plates pls.
SpawnerUpdated(pls) ==
    [p \in DOMAIN pls |->
        IF p \in Range(plates) /\ pls[p].body.id # 0
        THEN PlateUpdate(pls[p], physicsBounds) ELSE pls[p]]

\* Plate.setPosition(position)
setPosition(pl, position) ==
    [pl EXCEPT !.body.position = position, !.meshPosition = position]

\* lerp(start, end, INTERACTION.DRAG_SMOOTH_FACTOR), to the millimetre
lerp(start, end) == start + ((end - start) * 3) \div 10

\* The position updateDrag (lift 0.02) and updateDragXR (lift 0.03) hand to
\* plate.setPosition for the point where the ray meets the drag plane:
\* the point's offset from bounds.position is clamped to the padded
\* bounds, the plate goes three tenths of the way there.
DragPosition(bounds, currentPos, intersectPoint, lift) ==
    LET localX == intersectPoint.x - bounds.position.x
        localZ == intersectPoint.z - bounds.position.z
        clampedX == Max(bounds.minX + DragPadding, Min(bounds.maxX - DragPadding, localX))
        clampedZ == Max(bounds.minZ + DragPadding, Min(bounds.maxZ - DragPadding, localZ))
        targetPosition == [x |-> bounds.position.x + clampedX,
                           y |-> bounds.centerY + lift,
                           z |-> bounds.position.z + clampedZ]
    IN [x |-> lerp(currentPos.x, targetPosition.x),
        y |-> targetPosition.y,
        z |-> lerp(currentPos.z, targetPosition.z)]

SPAWN_MIN_SPACING == 100        \* SPAWN.MIN_SPACING 0.10
SPAWN_INITIAL_HEIGHT == 150     \* SPAWN.INITIAL_HEIGHT 0.15
PLATE_MAX_WIDTH == 80           \* PLATE.MAX_WIDTH 0.08
PLATE_MAX_DEPTH == 80           \* PLATE.MAX_DEPTH 0.08
SpawnPadding == 100             \* the padding from the edges, 0.1
MaxAttempts == 50               \* maxAttempts = 50

\* The bounds spawnPlates hands to generateNonOverlappingPosition.
PaddedBounds(bounds) ==
    [minX |-> bounds.minX + SpawnPadding, maxX |-> bounds.maxX - SpawnPadding,
     minZ |-> bounds.minZ + SpawnPadding, maxZ |-> bounds.maxZ - SpawnPadding]

\* distance < minSpacing, on the squares
TooClose(a, b, minSpacing) ==
    (a.x - b.x) * (a.x - b.x) + (a.z - b.z) * (a.z - b.z) < minSpacing * minSpacing

\* The loop of generateNonOverlappingPosition from attempt a on; attempts[a]
\* is the point the two randFloat calls of attempt a draw.
RECURSIVE TryAttempts(_, _, _, _, _)
TryAttempts(existingPositions, attempts, minSpacing, maxAttempts, a) ==
    IF a > maxAttempts THEN None
    ELSE IF \A i \in DOMAIN existingPositions :
               ~TooClose(attempts[a], existingPositions[i], minSpacing)
    THEN Some(attempts[a])
    ELSE TryAttempts(existingPositions, attempts, minSpacing, maxAttempts, a + 1)

\* generateNonOverlappingPosition(existingPositions, bounds, minSpacing): the
\* first drawn point that keeps its distance, null when none of the
\* maxAttempts draws does.
generateNonOverlappingPosition(existingPositions, attempts, minSpacing, maxAttempts) ==
    TryAttempts(existingPositions, attempts, minSpacing, maxAttempts, 1)

\* The loop of spawnPlates from plate i on: the positions found; a plate
\* without a position is skipped with a warning.
RECURSIVE SpawnPositions(_, _, _)
SpawnPositions(positions, draws, i) ==
    IF i > Len(draws) THEN positions
    ELSE LET position2D == generateNonOverlappingPosition(positions, draws[i],
                                            SPAWN_MIN_SPACING, MaxAttempts)
         IN SpawnPositions(IF position2D # None
                           THEN Append(positions, Val(position2D))
                           ELSE positions,
                           draws, i + 1)

\* THREE.MathUtils.randFloat(low, high) gives a number from low to high.
InPaddedBounds(bounds, pt) ==
    /\ pt.x >= bounds.minX + SpawnPadding /\ pt.x <= bounds.maxX - SpawnPadding
    /\ pt.z >= bounds.minZ + SpawnPadding /\ pt.z <= bounds.maxZ - SpawnPadding

\* The draws are what randFloat can return for the bounds: maxAttempts
\* points inside the padded bounds for each of the plateCount plates.
DrawsFit(bounds, plateCount, draws) ==
    /\ Len(draws) = plateCount
    /\ {Len(draws[i]) : i \in DOMAIN draws} \subseteq {MaxAttempts}
    /\ {pt \in UNION {Range(draws[i]) : i \in DOMAIN draws} :
            ~InPaddedBounds(bounds, pt)} = {}

\* The world position spawnPlates gives the plate of a 2D position.
SpawnWorldPosition(bounds, position2D) ==
    [x |-> bounds.position.x + position2D.x,
     y |-> bounds.centerY + SPAWN_INITIAL_HEIGHT,
     z |-> bounds.position.z + position2D.z]

\* The number of plates spawnPlates creates for the draws.
PlacedCount(draws) == Len(SpawnPositions(<<>>, draws, 1))

\* PlateSpawner.spawnPlates(desktopBounds): plateCount plates are asked for,
\* draws[i] are the points drawn for the i-th, and the plates that get a
\* position from generateNonOverlappingPosition are created.
\* Each new Plate adds its body to the world (addPlateBody).
SpawnPlates(bounds, plateCount, draws) ==
    /\ spawnCalls < MaxSpawnCalls
    /\ plateCount \in MIN_PLATES..MAX_PLATES
    /\ DrawsFit(bounds, plateCount, draws)
    /\ \E positions \in {SpawnPositions(<<>>, draws, 1)} :
       LET placed == Len(positions)
           ids == [k \in 1..placed |-> nextBody + k - 1]
           st == AddPlateBodies([world |-> world, plateBodies |-> plateBodies], ids, 1)
       IN /\ plates' = plates \o ids
          /\ plate' = [p \in DOMAIN plate \cup Range(ids) |->
                          IF p \in DOMAIN plate THEN plate[p]
                          ELSE NewPlate(p, SpawnWorldPosition(bounds,
                                               positions[p - nextBody + 1]))]
          /\ world' = st.world
          /\ plateBodies' = st.plateBodies
          /\ nextBody' = nextBody + placed
    /\ spawnCalls' = spawnCalls + 1
    /\ UNCHANGED <<desktopBodies, physicsBounds, boundaryCalls, stepVars>>

PlateInit ==
    /\ plates = <<>>
    /\ plate = [p \in {} |-> NewPlate(p, Origin)]
    /\ spawnCalls = 0

(***************************************************************************)
(* DragController and TouchHandler (the XR input version main.js wires).   *)
(***************************************************************************)
\* DragController.startDrag(plate)
startDrag(p) == plate' = [plate EXCEPT ![p] = setKinematic(@, TRUE)]

\* DragController.endDrag(plate)
endDrag(p) == plate' = [plate EXCEPT ![p] = setKinematic(@, FALSE)]

NoEvent == [name |-> "none", gestureType |-> "none"]

\* The readings of Date.now() at a selectstart; the XR handler keeps the
\* sample and never reads it.
SelectTimes == {0}

\* The session's selectstart event: _onSelectStart(event)
OnSelectStart(src) ==
    /\ src \notin pressed
    /\ pressed' = pressed \cup {src}
    /\ isSelecting' = TRUE
    /\ inputSource' = src
    /\ touchEvent' = NoEvent
    /\ \E time \in SelectTimes :
          /\ touchStartPos' = Some([time |-> time])
          /\ touchHistory' = <<[time |-> time]>>
    /\ UNCHANGED <<selectedPlate, pointerLost, plate>>

\* A faulty test, which takes every frame for one that has yet to select.
NoPlateSelectedAlways == TRUE

\* `!this.selectedPlate`: update has yet to select a plate.
NoPlateSelected == selectedPlate = 0

\* DragController.updateDragXR(plate, raycaster) on the plate record pl:
\* point is where the ray meets the drag plane (None: nowhere), the
\* controller's desktopBounds are the bounds _placeDesktop also gave to
\* the physics world.
updateDragXR(pl, point) ==
    IF point # None /\ physicsBounds # None
    THEN setPosition(pl, DragPosition(Val(physicsBounds), pl.meshPosition,
                                      Val(point), DragLiftXR))
    ELSE pl

\* update(frame, referenceSpace) on the plates pls: poseAvailable says
\* whether frame.getPose gives a pose for this.inputSource.targetRaySpace,
\* hit is the plate _raycastPlatesXR finds (0: none), point is where the
\* ray of the input source meets the drag plane (None: nowhere).
TouchUpdateOn(pls, poseAvailable, hit, point) ==
    /\ inputSource \in pointerLost => ~poseAvailable
    /\ hit \in Range(plates) \cup {0}
    /\ IF ~isSelecting \/ inputSource = NULL
       THEN touchEvent' = NoEvent /\ plate' = pls /\ UNCHANGED selectedPlate
       ELSE IF NoPlateSelected
       THEN \* _performInitialSelection
            IF poseAvailable /\ hit # 0
            THEN /\ selectedPlate' = hit
                 /\ touchEvent' = [name |-> "onPlateSelected", gestureType |-> "none"]
                 /\ plate' = [pls EXCEPT ![hit] = setKinematic(@, TRUE)]
            ELSE touchEvent' = NoEvent /\ plate' = pls /\ UNCHANGED selectedPlate
       ELSE IF ~poseAvailable
       THEN touchEvent' = NoEvent /\ plate' = pls /\ UNCHANGED selectedPlate
       ELSE \* onPlateDraggingXR -> updateDragXR -> plate.setPosition
            /\ touchEvent' = [name |-> "onPlateDraggingXR", gestureType |-> "none"]
            /\ plate' = [pls EXCEPT ![selectedPlate] = updateDragXR(@, point)]
            /\ UNCHANGED selectedPlate
    /\ UNCHANGED <<isSelecting, inputSource, touchStartPos, touchHistory, pressed,
                   pointerLost>>

\* update(frame, referenceSpace) while the ray of the input source misses
\* the drag plane.
TouchUpdate(poseAvailable, hit) == TouchUpdateOn(plate, poseAvailable, hit, None)

\* The session's selectend event: _onSelectEnd(event)
OnSelectEnd(src) ==
    /\ src \in pressed
    /\ src \notin pointerLost
    /\ pressed' = pressed \ {src}
    /\ isSelecting' = FALSE
    /\ IF selectedPlate = 0
       THEN /\ touchEvent' = NoEvent
            /\ UNCHANGED <<selectedPlate, inputSource, touchStartPos, touchHistory,
                           plate>>
       ELSE /\ touchEvent' = [name |-> "onPlateReleased", gestureType |-> "tap"]
            /\ endDrag(selectedPlate)
            /\ selectedPlate' = 0
            /\ inputSource' = NULL
            /\ touchStartPos' = None
            /\ touchHistory' = <<>>
    /\ UNCHANGED pointerLost

\* The tracking runtime stops tracking a source whose primary action is
\* held: from then on it has no pose and sends no selectend.
PointerLost(src) ==
    /\ src \in pressed
    /\ src \notin pointerLost
    /\ pointerLost' = pointerLost \cup {src}
    /\ UNCHANGED <<isSelecting, inputSource, selectedPlate, touchEvent, touchStartPos,
                   touchHistory, pressed, plate>>

\* _onXRFrame(time, frame) once the desktop is placed: the frame's time is
\* stored (consecutive frames have different times), the world is stepped,
\* plateSpawner.update and touchHandler.update run.
XRFrameDrag(poseAvailable, hit, point) ==
    /\ lastFrameTime' = 1 - lastFrameTime
    /\ PhysicsStep(FrameDelta)
    /\ TouchUpdateOn(SpawnerUpdated(plate), poseAvailable, hit, point)

\* The same while the ray of the input source misses the drag plane.
XRFrameTouch(poseAvailable, hit) == XRFrameDrag(poseAvailable, hit, None)

TouchInit ==
    /\ isSelecting = FALSE
    /\ inputSource = NULL
    /\ selectedPlate = 0
    /\ touchEvent = NoEvent
    /\ touchStartPos = None
    /\ touchHistory = <<>>
    /\ pressed = {}
    /\ pointerLost = {}

(***************************************************************************)
(* TouchHandler (the canvas touch version) and ThrowController.  Screen    *)
(* positions are in pixels, times in milliseconds, positions in space in   *)
(* millimetres; a velocity is a fraction of integers, in m/s.              *)
(***************************************************************************)
TAP_THRESHOLD == 10             \* INTERACTION.TAP_THRESHOLD, pixels
SWIPE_THRESHOLD == 50           \* INTERACTION.SWIPE_THRESHOLD, pixels
TOUCH_SAMPLES == 3              \* INTERACTION.TOUCH_SAMPLES
THROW_VELOCITY_SCALE == 2       \* INTERACTION.THROW_VELOCITY_SCALE 2.0
MAX_THROW_VELOCITY == 8         \* INTERACTION.MAX_THROW_VELOCITY 8.0

\* The one finger of the screen, as an input source.
Finger == "touch"

\* calculateVelocity(touchHistory), in pixels per second: the fraction
\* [x, y] / d.
calculateVelocity(history) ==
    IF Len(history) < 2 THEN [x |-> 0, y |-> 0, d |-> 1]
    ELSE LET last == history[Len(history)]
             first == history[1]
             timeDelta == last.time - first.time     \* in ms: / 1000 below
         IN IF timeDelta = 0 THEN [x |-> 0, y |-> 0, d |-> 1]
            ELSE [x |-> (last.x - first.x) * 1000, y |-> (last.y - first.y) * 1000,
                  d |-> timeDelta]

\* A faulty calculateVelocity3D, which goes back to the first sample of
\* the history.
calculateVelocity3DWholeHistory(positionHistory) ==
    IF Len(positionHistory) < 2 THEN [x |-> 0, y |-> 0, z |-> 0, d |-> 1]
    ELSE LET last == positionHistory[Len(positionHistory)]
             first == positionHistory[1]
             timeDelta == last.time - first.time
         IN IF timeDelta = 0 THEN [x |-> 0, y |-> 0, z |-> 0, d |-> 1]
            ELSE [x |-> last.x - first.x, y |-> last.y - first.y,
                  z |-> last.z - first.z, d |-> timeDelta]

\* calculateVelocity3D(positionHistory), in m/s: at most the last five
\* samples count.
calculateVelocity3D(positionHistory) ==
    IF Len(positionHistory) < 2 THEN [x |-> 0, y |-> 0, z |-> 0, d |-> 1]
    ELSE LET sampleCount == IF Len(positionHistory) < 5 THEN Len(positionHistory) ELSE 5
             last == positionHistory[Len(positionHistory)]
             first == positionHistory[Len(positionHistory) - sampleCount + 1]
             timeDelta == last.time - first.time
         IN IF timeDelta = 0 THEN [x |-> 0, y |-> 0, z |-> 0, d |-> 1]
            ELSE [x |-> last.x - first.x, y |-> last.y - first.y,
                  z |-> last.z - first.z, d |-> timeDelta]

\* velocity3D.multiplyScalar(num / den)
multiplyScalar(v, num, den) ==
    Velocity(<<num * v.n[1], num * v.n[2], num * v.n[3]>>, den * v.d)

\* velocity3D.y *= num / den
ScaleY(v, num, den) ==
    Velocity(<<den * v.n[1], num * v.n[2], den * v.n[3]>>, den * v.d)

\* `if (speed > MAX_THROW_VELOCITY) velocity3D.normalize().multiplyScalar(MAX)`
CapVelocity(v) ==
    IF Exceeds(v, MAX_THROW_VELOCITY)
    THEN [v EXCEPT !.s2 = Fraction(MAX_THROW_VELOCITY * MAX_THROW_VELOCITY * v.d * v.d,
                                   Dot(v.n))]
    ELSE v

\* The velocity throwPlate(plate, touchHistoryOrVelocity) hands to
\* plate.applyVelocity.  input.kind says whether input.speed is defined: a
\* 3D velocity is amplified by 2.5 and its y damped by 0.2, a touch history
\* gives a velocity in the desktop's plane.
ThrowVelocity(input) ==
    IF input.kind = "velocity"
    THEN CapVelocity(ScaleY(multiplyScalar(
             Velocity(<<input.x, input.y, input.z>>, input.d), 5, 2), 1, 5))
    ELSE LET velocity2D == calculateVelocity(input.history)
         IN CapVelocity(Velocity(
                <<(velocity2D.x * THROW_VELOCITY_SCALE) \div 1000, 0,
                  -((velocity2D.y * THROW_VELOCITY_SCALE) \div 1000)>>, velocity2D.d))

\* throwPlate(plate, touchHistoryOrVelocity) on the plate record pl: the
\* capped velocity is applied, the angular velocity is the three draws of
\* Math.random.
throwPlate(pl, input, angular) ==
    [pl EXCEPT !.body.velocity = ThrowVelocity(input),
               !.body.angularVelocity = angular]

\* A faulty classifier, which takes every release for a swipe or a drag.
GestureTypeWithoutTap(start, lastTouch) ==
    LET dx == lastTouch.x - start.x
        dy == lastTouch.y - start.y
    IN IF dx * dx + dy * dy > SWIPE_THRESHOLD * SWIPE_THRESHOLD THEN "throw"
       ELSE "drag"

\* The gesture _onTouchEnd finds from the start of the touch to its last
\* sample.
GestureType(start, lastTouch) ==
    LET dx == lastTouch.x - start.x
        dy == lastTouch.y - start.y
    IN IF dx * dx + dy * dy < TAP_THRESHOLD * TAP_THRESHOLD THEN "tap"
       ELSE IF dx * dx + dy * dy > SWIPE_THRESHOLD * SWIPE_THRESHOLD THEN "throw"
       ELSE "drag"

\* _onTouchStart(event) with one touch at (x, y); hit is the plate
\* _raycastPlates finds (0: none).
OnTouchStart(x, y, time, hit) ==
    /\ Finger \notin pressed
    /\ pressed' = pressed \cup {Finger}
    /\ hit \in Range(plates) \cup {0}
    /\ touchStartPos' = Some([x |-> x, y |-> y, time |-> time])
    /\ touchHistory' = <<[x |-> x, y |-> y, time |-> time]>>
    /\ IF hit # 0
       THEN /\ selectedPlate' = hit
            /\ touchEvent' = [name |-> "onPlateSelected", gestureType |-> "none"]
            /\ startDrag(hit)
       ELSE touchEvent' = NoEvent /\ UNCHANGED <<selectedPlate, plate>>
    /\ UNCHANGED <<isSelecting, inputSource, pointerLost>>

\* _onTouchMove(event) with one touch at (x, y): the history keeps the
\* TOUCH_SAMPLES latest samples.
OnTouchMove(x, y, time) ==
    /\ Finger \in pressed
    /\ touchHistory # <<>> => time >= touchHistory[Len(touchHistory)].time
    /\ IF selectedPlate = 0
       THEN touchEvent' = NoEvent /\ UNCHANGED touchHistory
       ELSE /\ LET pushed == Append(touchHistory, [x |-> x, y |-> y, time |-> time])
               IN touchHistory' = IF Len(pushed) > TOUCH_SAMPLES THEN Tail(pushed)
                                  ELSE pushed
            /\ touchEvent' = [name |-> "onPlateDragged", gestureType |-> "none"]
    /\ UNCHANGED <<isSelecting, inputSource, selectedPlate, touchStartPos, pressed,
                   pointerLost, plate>>

\* _onTouchEnd(event): a tap or a drag releases the plate, a swipe throws
\* it (main.js: endDrag, then throwPlate with the history).
OnTouchEnd(angular) ==
    /\ Finger \in pressed
    /\ pressed' = pressed \ {Finger}
    /\ IF selectedPlate = 0 \/ touchStartPos = None
       THEN /\ touchEvent' = NoEvent
            /\ UNCHANGED <<selectedPlate, touchStartPos, touchHistory, plate>>
       ELSE /\ LET gesture == GestureType(Val(touchStartPos),
                                          touchHistory[Len(touchHistory)])
               IN IF gesture = "throw"
                  THEN /\ touchEvent' = [name |-> "onPlateThrown",
                                         gestureType |-> "throw"]
                       /\ plate' = [plate EXCEPT ![selectedPlate] =
                              throwPlate(setKinematic(@, FALSE),
                                  [kind |-> "history", history |-> touchHistory],
                                  angular)]
                  ELSE /\ touchEvent' = [name |-> "onPlateReleased",
                                         gestureType |-> gesture]
                       /\ endDrag(selectedPlate)
            /\ selectedPlate' = 0
            /\ touchStartPos' = None
            /\ touchHistory' = <<>>
    /\ UNCHANGED <<isSelecting, inputSource, pointerLost>>

\* The onPlateThrown callback main.js sets, called with the velocity
\* calculateVelocity3D finds for a history of positions: endDrag, then
\* throwPlate.
OnPlateThrown(p, positionHistory, angular) ==
    /\ p \in Range(plates)
    /\ LET v == calculateVelocity3D(positionHistory)
       IN plate' = [plate EXCEPT ![p] =
              throwPlate(setKinematic(@, FALSE),
                  [kind |-> "velocity", x |-> v.x, y |-> v.y, z |-> v.z, d |-> v.d],
                  angular)]
    /\ touchEvent' = [name |-> "onPlateThrown", gestureType |-> "throw"]
    /\ UNCHANGED <<isSelecting, inputSource, selectedPlate, touchStartPos,
                   touchHistory, pressed, pointerLost>>

(***************************************************************************)
(* ARVirtualDesktop (main.js): the frame callback, the continuation of     *)
(* _placeDesktop and the end of the session.                               *)
(***************************************************************************)
AppInit ==
    /\ lastFrameTime = 0
    /\ isDesktopPlaced = FALSE
    /\ session = "running"
    /\ frameLog = <<>>

\* The stages of one frame before the desktop is placed:
\* surfaceDetector.update ingests the planes, then finds the pointed one.
StagesBeforePlacement == <<"catalogIngestion", "pointerSelection">>

\* The stages of one frame once the desktop is placed: physicsWorld.step,
\* plateSpawner.update, touchHandler.update, in this order.
StagesAfterPlacement == <<"physicsStep", "visualSync", "gestureUpdate">>

\* _onXRFrame(time, frame).  Before the desktop is placed the detector is
\* updated and, when `tap` (update returned a hit test result and a select
\* is pending), _placeDesktop runs up to the await in its call c of
\* placeDesktop.  Once it is placed the
\* physics step, the plates' sync and touchHandler.update run; the sync
\* changes positions only, which are outside the state.
OnXRFrame(frame, tap, c, pose, size, poseAvailable, hit) ==
    /\ session = "running"
    /\ lastFrameTime' = 1 - lastFrameTime
    /\ UNCHANGED <<isDesktopPlaced, session>>
    /\ IF ~isDesktopPlaced
       THEN /\ frameLog' = StagesBeforePlacement
            /\ IF tap
               THEN /\ SurfaceUpdateAdding(frame,
                          IF ~isPlaced /\ pose # None
                          THEN {DesktopObj(nextDesktop)} ELSE {})
                    /\ calls[c].pc = "idle"
                    /\ \A b \in CallIds : b < c => calls[b].pc # "idle"
                    /\ IF isPlaced
                       THEN /\ calls' = [calls EXCEPT ![c] =
                                   [pc |-> "returned", pose |-> pose,
                                    result |-> desktopBounds]]
                            /\ UNCHANGED <<desktop, desktopBounds, isPlaced, anchor,
                                           nextDesktop>>
                       ELSE IF pose = None
                       THEN /\ calls' = [calls EXCEPT ![c] =
                                   [pc |-> "threw", pose |-> pose, result |-> None]]
                            /\ UNCHANGED <<desktop, desktopBounds, isPlaced, anchor,
                                           nextDesktop>>
                       ELSE /\ desktop' = nextDesktop
                            /\ desktopBounds' = Some(BoundsRecord(nextDesktop,
                                   Val(pose).position, Val(pose).orientation, size))
                            /\ nextDesktop' = nextDesktop + 1
                            /\ calls' = [calls EXCEPT ![c] =
                                   [pc |-> "awaitAnchor", pose |-> pose,
                                    result |-> None]]
                            /\ UNCHANGED <<isPlaced, anchor>>
               ELSE SurfaceUpdate(frame) /\ UNCHANGED placerVars
            /\ UNCHANGED <<physicsVars, plateVars, touchVars>>
       ELSE /\ frameLog' = StagesAfterPlacement
            /\ PhysicsStep(FrameDelta)
            /\ TouchUpdateOn(SpawnerUpdated(plate), poseAvailable, hit, None)
            /\ UNCHANGED <<surfaceVars, scene, placerVars, bodyVars, plates,
                           spawnCalls>>

\* The rest of _placeDesktop once placeDesktop's promise is fulfilled: the
\* boundaries are set up from the returned bounds, plateCount plates are
\* spawned, the controllers are created, isDesktopPlaced is set.  Each
\* _placeDesktop call continues once, so the calls bound the counters.
PlaceDesktopContinues(c, resolved, plateCount, draws) ==
    /\ session = "running"
    /\ AnchorSettles(c, resolved)
    /\ plateCount \in MIN_PLATES..MAX_PLATES
    /\ desktopBounds # None
    /\ DrawsFit(Val(desktopBounds), plateCount, draws)
    /\ \E positions \in {SpawnPositions(<<>>, draws, 1)} :
       LET placed == Len(positions)
           created == NewBoundaryBodies(nextBody, boundaryCalls + 1)
           first == nextBody + Len(created)
           ids == [k \in 1..placed |-> first + k - 1]
           st == AddPlateBodies(
                    [world |-> (world \ Range(desktopBodies)) \cup Range(created),
                     plateBodies |-> plateBodies], ids, 1)
       IN /\ physicsBounds' = desktopBounds
          /\ desktopBodies' = created
          /\ world' = st.world
          /\ plates' = plates \o ids
          /\ plate' = [p \in DOMAIN plate \cup Range(ids) |->
                          IF p \in DOMAIN plate THEN plate[p]
                          ELSE NewPlate(p, SpawnWorldPosition(Val(desktopBounds),
                                               positions[p - first + 1]))]
          /\ plateBodies' = st.plateBodies
          /\ nextBody' = first + placed
    /\ boundaryCalls' = boundaryCalls + 1
    /\ spawnCalls' = spawnCalls + 1
    /\ isDesktopPlaced' = TRUE
    /\ UNCHANGED <<surfaceVars, touchVars, stepVars, lastFrameTime, session, frameLog>>

\* The rest of _placeDesktop when the promise is fulfilled after the session
\* ended: the placer's continuation runs, this.physicsWorld is null, the
\* TypeError is caught and nothing else changes.
PlaceDesktopContinuesEnded(c, resolved) ==
    /\ session = "ended"
    /\ AnchorSettles(c, resolved)
    /\ UNCHANGED <<surfaceVars, physicsVars, plateVars, touchVars, appVars>>

\* _onSessionEnd(): the touch handler and the drag controller are dropped,
\* the spawner disposes of its plates, the detector of its meshes, the
\* placer of its desktop and anchor, the physics world of its bodies.
OnSessionEnd ==
    /\ session = "running"
    /\ LET st == DisposeFrom([world |-> world, plateBodies |-> plateBodies,
                              plate |-> plate], plates, 1)
       IN /\ plate' = st.plate
          /\ plates' = SpawnerDisposedList(plates)
    /\ PhysicsDispose
    /\ planeMeshes' = <<>>
    /\ desktop' = 0
    /\ anchor' = 0
    /\ isPlaced' = FALSE
    /\ desktopBounds' = None
    /\ scene' = (scene \ {PlaneMeshObj(p) : p \in MeshKeys(planeMeshes)})
                    \ {DesktopObj(desktop)}
    /\ isDesktopPlaced' = FALSE
    /\ session' = "ended"
    /\ UNCHANGED <<isReady, planeDetectionSupported, selectedPlane,
                   currentPointedPlane, detectorOp, nextDesktop, calls, spawnCalls,
                   touchVars, lastFrameTime, frameLog>>

(***************************************************************************)
(* The draws of Math.random the specifications give to spawnPlates.        *)
(***************************************************************************)
\* The k-th point of the lattice of step SPAWN_MIN_SPACING over the padded
\* bounds, row by row.
LatticePoint(bounds, k) ==
    LET b == PaddedBounds(bounds)
        cols == (b.maxX - b.minX) \div SPAWN_MIN_SPACING + 1
    IN [x |-> b.minX + SPAWN_MIN_SPACING * ((k - 1) % cols),
        z |-> b.minZ + SPAWN_MIN_SPACING * ((k - 1) \div cols)]

\* Draws for plateCount plates: the first `apart` plates draw lattice points
\* of their own (on the last attempt only when `late`, after maxAttempts - 1
\* draws of the first lattice point), the others draw the first lattice
\* point at every attempt.
SpawnDraws(bounds, plateCount, apart, late) ==
    [i \in 1..plateCount |->
        [a \in 1..MaxAttempts |->
            IF i <= apart /\ (~late \/ a = MaxAttempts)
            THEN LatticePoint(bounds, i)
            ELSE LatticePoint(bounds, 1)]]

\* Draws for plateCount plates: the first draws the first lattice point, the
\* others the point 75 mm further along both axes.
DiagonalDraws(bounds, plateCount) ==
    [i \in 1..plateCount |->
        [a \in 1..MaxAttempts |->
            IF i = 1 THEN LatticePoint(bounds, 1)
            ELSE [x |-> LatticePoint(bounds, 1).x + 75,
                  z |-> LatticePoint(bounds, 1).z + 75]]]

\* The spawnPlates calls of the physics specification: every bounds, every
\* count; one plate, all but one of the fewest, the fewest or all of them
\* drawing points of their own.
PhysicsSpawnCalls ==
    {[bounds |-> b, plateCount |-> MIN_PLATES, draws |-> DiagonalDraws(b, MIN_PLATES)] :
        b \in SpawnBounds} \cup
    {[bounds |-> b, plateCount |-> n, draws |-> SpawnDraws(b, n, apart, late)] :
        b \in SpawnBounds, n \in MIN_PLATES..MAX_PLATES,
        apart \in {1, MIN_PLATES - 1, MIN_PLATES}, late \in BOOLEAN}
      \cup {[bounds |-> b, plateCount |-> n, draws |-> SpawnDraws(b, n, n, FALSE)] :
               b \in SpawnBounds, n \in MIN_PLATES..MAX_PLATES}

\* The spawnPlates calls of the gesture specifications: the smallest
\* desktop, eight plates asked for.
GestureSpawnCalls ==
    {[bounds |-> b, plateCount |-> MAX_PLATES,
      draws |-> SpawnDraws(b, MAX_PLATES, apart, FALSE)] :
        b \in {sb \in SpawnBounds : sb.width = DESKTOP_MIN_SIZE},
        apart \in 1..MAX_PLATES}

\* The draws of the session specification's spawnPlates call: five plates
\* asked for on a desktop of the default size, the last one failing or not.
SessionSpawnDraws ==
    {SpawnDraws(b, MIN_PLATES, apart, FALSE) :
        b \in {sb \in SpawnBounds : sb.width = DefaultWidth},
        apart \in {MIN_PLATES - 1, MIN_PLATES}}

(***************************************************************************)
(* Specifications.                                                         *)
(***************************************************************************)
InitWith(enabled) ==
    /\ SurfaceInit(enabled)
    /\ scene = {}
    /\ PlacerInit
    /\ PhysicsInit
    /\ PlateInit
    /\ TouchInit
    /\ AppInit

Init == InitWith(BOOLEAN)

\* The state after construction in a session with plane detection enabled.
InitEnabled == InitWith({TRUE})

\* ---- SurfaceDetector under frames and select calls
SurfaceNext ==
    \/ \E frame \in SurfaceFrames :
          SurfaceUpdate(frame) /\ UNCHANGED <<placerVars, physicsVars, plateVars, touchVars, appVars>>
    \/ \E p \in Planes :
          SetSelectedPlane(p) /\ UNCHANGED <<placerVars, physicsVars, plateVars, touchVars, appVars>>

SpecSurface == Init /\ [][SurfaceNext]_vars

\* ---- SurfaceDetector's filter under frames that report one plane
FilterNext ==
    \E p \in Planes, a \in FilterSamples :
        SurfaceUpdate(FilterFrame(p, a))
          /\ UNCHANGED <<placerVars, physicsVars, plateVars, touchVars, appVars>>

SpecFilter == InitEnabled /\ [][FilterNext]_vars

\* ---- SurfaceDetector's pointing under frames with one or two pointers
PointingNext ==
    \E report \in PointingReports, pf \in PointingFrames :
        SurfaceUpdate([detectedPlanes |-> report, pointers |-> pf])
          /\ UNCHANGED <<placerVars, physicsVars, plateVars, touchVars, appVars>>

SpecPointing == InitEnabled /\ [][PointingNext]_vars

\* ---- DesktopPlacer under overlapping placement calls
PlacerNext ==
    \/ \E c \in CallIds, pose \in PlacementPoses, size \in DetectedSizes :
          PlaceDesktop(c, pose, size)
            /\ UNCHANGED <<surfaceVars, physicsVars, plateVars, touchVars, appVars>>
    \/ \E c \in CallIds, pose \in PlacementPoses, size \in DetectedSizes :
          PlaceDesktopOnPlane(c, pose, size)
            /\ UNCHANGED <<surfaceVars, physicsVars, plateVars, touchVars, appVars>>
    \/ \E c \in CallIds, resolved \in BOOLEAN :
          AnchorSettles(c, resolved)
            /\ UNCHANGED <<surfaceVars, physicsVars, plateVars, touchVars, appVars>>

SpecPlacer == InitEnabled /\ [][PlacerNext]_vars

\* ---- selection and placement together: the calls the two components
\* accept, in any order (no code calls one from the other)
SelectPlaceNext ==
    \/ \E p \in Planes :
          SetSelectedPlane(p) /\ UNCHANGED <<placerVars, physicsVars, plateVars, touchVars, appVars>>
    \/ PlacerNext

SpecSelectPlace == InitEnabled /\ [][SelectPlaceNext]_vars

\* ---- PhysicsWorld: boundaries and plate bodies
PhysicsNext ==
    \/ \E bounds \in StageBounds :
          SetupDesktopBoundaries(bounds)
            /\ UNCHANGED <<surfaceVars, scene, placerVars, plateVars, touchVars, appVars>>
    \/ \E call \in PhysicsSpawnCalls :
          SpawnPlates(call.bounds, call.plateCount, call.draws)
            /\ UNCHANGED <<surfaceVars, scene, placerVars, touchVars, appVars>>

SpecPhysics == InitEnabled /\ [][PhysicsNext]_vars

\* ---- plates under the gesture controller
GestureNext ==
    \/ \E call \in GestureSpawnCalls :
          SpawnPlates(call.bounds, call.plateCount, call.draws)
            /\ UNCHANGED <<surfaceVars, scene, placerVars, touchVars, appVars>>
    \/ \E src \in InputSources :
          OnSelectStart(src)
            /\ UNCHANGED <<surfaceVars, scene, placerVars, physicsVars, plates, spawnCalls,
                          appVars>>
    \/ \E poseAvailable \in BOOLEAN, hit \in Range(plates) \cup {0} :
          TouchUpdate(poseAvailable, hit)
            /\ UNCHANGED <<surfaceVars, scene, placerVars, physicsVars, plates, spawnCalls,
                          appVars>>
    \/ \E src \in InputSources :
          OnSelectEnd(src)
            /\ UNCHANGED <<surfaceVars, scene, placerVars, physicsVars, plates, spawnCalls,
                          appVars>>
    \/ \E src \in InputSources :
          PointerLost(src)
            /\ UNCHANGED <<surfaceVars, scene, placerVars, physicsVars, plates, spawnCalls,
                          appVars>>

SpecGesture == InitEnabled /\ [][GestureNext]_vars

\* ---- the same, driven by the frame loop: _onXRFrame asks for the next
\* frame each time it runs, so frames never stop coming while the session
\* lasts.
Frame ==
    \E poseAvailable \in BOOLEAN, hit \in Range(plates) \cup {0} :
        XRFrameTouch(poseAvailable, hit)
          /\ UNCHANGED <<surfaceVars, scene, placerVars, bodyVars, plates, spawnCalls,
                        isDesktopPlaced, session, frameLog>>

GestureFrameNext ==
    \/ \E call \in GestureSpawnCalls :
          SpawnPlates(call.bounds, call.plateCount, call.draws)
            /\ UNCHANGED <<surfaceVars, scene, placerVars, touchVars, appVars>>
    \/ \E src \in InputSources :
          OnSelectStart(src)
            /\ UNCHANGED <<surfaceVars, scene, placerVars, physicsVars, plates, spawnCalls,
                          appVars>>
    \/ Frame
    \/ \E src \in InputSources :
          OnSelectEnd(src)
            /\ UNCHANGED <<surfaceVars, scene, placerVars, physicsVars, plates, spawnCalls,
                          appVars>>
    \/ \E src \in InputSources :
          PointerLost(src)
            /\ UNCHANGED <<surfaceVars, scene, placerVars, physicsVars, plates, spawnCalls,
                          appVars>>

SpecGestureFair == InitEnabled /\ [][GestureFrameNext]_vars /\ WF_vars(Frame)

\* ---- the session as main.js drives it: frames, the placement's
\* continuation, the select events once the touch handler exists, the end
SessionFrames ==
    {[detectedPlanes |-> r, pointers |-> NoPointers] :
        r \in PlaneReports({<<"p1">>})}

SessionPoses == {ps \in PlacementPoses : ps = None \/ Val(ps).orientation.pitch = 0}

SessionHits == {0} \cup (IF plates = <<>> THEN {} ELSE {plates[1]})

SessionSources == {"right"}

SessionNext ==
    \/ \E frame \in SessionFrames :
          /\ ~isDesktopPlaced
          /\ OnXRFrame(frame, FALSE, 1, None, None, FALSE, 0)
    \/ \E frame \in SessionFrames, c \in CallIds, pose \in SessionPoses :
          /\ ~isDesktopPlaced
          /\ OnXRFrame(frame, TRUE, c, pose, None, FALSE, 0)
    \/ \E poseAvailable \in BOOLEAN, hit \in SessionHits :
          /\ isDesktopPlaced
          /\ OnXRFrame([detectedPlanes |-> None, pointers |-> NoPointers], FALSE, 1,
                       None, None, poseAvailable, hit)
    \/ \E c \in CallIds, resolved \in BOOLEAN,
          draws \in SessionSpawnDraws :
          PlaceDesktopContinues(c, resolved, MIN_PLATES, draws)
    \/ \E src \in SessionSources :
          /\ session = "running" /\ isDesktopPlaced
          /\ OnSelectStart(src)
          /\ UNCHANGED <<surfaceVars, scene, placerVars, physicsVars, plates, spawnCalls,
                         appVars>>
    \/ \E src \in SessionSources :
          /\ session = "running" /\ isDesktopPlaced
          /\ OnSelectEnd(src)
          /\ UNCHANGED <<surfaceVars, scene, placerVars, physicsVars, plates, spawnCalls,
                         appVars>>
    \/ OnSessionEnd
    \/ \E c \in CallIds, resolved \in BOOLEAN :
          PlaceDesktopContinuesEnded(c, resolved)

SpecSession == InitEnabled /\ [][SessionNext]_vars

\* ---- the canvas touch handler with the throw controller.  One spawnPlates
\* call puts five plates on the smallest desktop; the finger goes down at
\* the origin, on the first plate or beside the plates; the hand-tracked
\* releases come while no touch has been recorded.
ThrowSpawnCalls ==
    {[bounds |-> b, plateCount |-> MIN_PLATES,
      draws |-> SpawnDraws(b, MIN_PLATES, MIN_PLATES, FALSE)] :
        b \in {sb \in SpawnBounds : sb.width = DESKTOP_MIN_SIZE}}

\* The samples of the touchmove events: still, within the tap threshold,
\* between the thresholds, beyond the swipe threshold.
TouchSamples ==
    [x : {0, 8, 40, 60}, y : {0, 40}, time : {0, 10, 20}]

\* The three draws of Math.random, as (Math.random() - 0.5) * 2
AngularDraws == {<<0, 0, 0>>, <<-1, 0, -1>>}

PositionSample(x, y, z, time) == [x |-> x, y |-> y, z |-> z, time |-> time]

\* The histories of hand positions at a release: two samples 100 ms apart
\* or at one time, a longer one whose first sample is out of the window,
\* one sample and none.
LongHistory ==
    <<PositionSample(900, 900, 900, 0), PositionSample(0, 0, 0, 10),
      PositionSample(50, 0, 20, 20), PositionSample(20, 10, 0, 30),
      PositionSample(0, 0, 0, 40), PositionSample(60, 0, 0, 110)>>

PositionHistories ==
    {<<PositionSample(0, 0, 0, 0), PositionSample(dx, dy, dz, time)>> :
        dx \in {0, 30, 400}, dy \in {0, 30, 300}, dz \in {0, -30}, time \in {0, 100}}
    \cup {LongHistory, <<PositionSample(30, 0, 0, 100)>>, <<>>}

ThrowNext ==
    \/ \E call \in ThrowSpawnCalls :
          /\ plates = <<>>
          /\ SpawnPlates(call.bounds, call.plateCount, call.draws)
          /\ UNCHANGED <<surfaceVars, scene, placerVars, touchVars, appVars>>
    \/ \E hit \in {0} \cup {plates[i] : i \in {1} \cap DOMAIN plates} :
          OnTouchStart(0, 0, 0, hit)
            /\ UNCHANGED <<surfaceVars, scene, placerVars, physicsVars, plates, spawnCalls,
                          appVars>>
    \/ \E sample \in TouchSamples :
          OnTouchMove(sample.x, sample.y, sample.time)
            /\ UNCHANGED <<surfaceVars, scene, placerVars, physicsVars, plates, spawnCalls,
                          appVars>>
    \/ \E angular \in AngularDraws :
          OnTouchEnd(angular)
            /\ UNCHANGED <<surfaceVars, scene, placerVars, physicsVars, plates, spawnCalls,
                          appVars>>
    \/ \E p \in {plates[i] : i \in {1} \cap DOMAIN plates},
          positionHistory \in PositionHistories, angular \in AngularDraws :
          /\ touchStartPos = None
          /\ OnPlateThrown(p, positionHistory, angular)
            /\ UNCHANGED <<surfaceVars, scene, placerVars, physicsVars, plates, spawnCalls,
                          appVars>>

SpecThrow == InitEnabled /\ [][ThrowNext]_vars

\* ---- the physics world under step calls, between the calls that set up
\* the boundaries.  The times since the last call: none, less than a step,
\* one step, more, up to ten seconds.
StepDeltas == {0, 4, 10, 17, 29, 30, 47, 6000}

StepNext ==
    \/ \E b \in SpawnBounds :
          SetupDesktopBoundaries(b)
            /\ UNCHANGED <<surfaceVars, scene, placerVars, plateVars, touchVars, appVars>>
    \/ \E deltaTime \in StepDeltas :
          PhysicsStep(deltaTime)
            /\ UNCHANGED <<surfaceVars, scene, placerVars, bodyVars, plateVars, touchVars,
                          appVars>>

SpecStep == InitEnabled /\ [][StepNext]_vars

\* ---- thrown and falling plates under the frame loop.  As in
\* _placeDesktop the boundaries are set up once, for the smallest desktop,
\* then one spawnPlates call puts five plates on it; the first plate is the one the pointer finds, the one the
\* hand-tracked releases throw and the one the world's integration moves.
SyncBounds == {sb \in SpawnBounds : sb.width = DESKTOP_MIN_SIZE}

\* The histories of hand positions at a release: a slow and a fast hand,
\* along x or across, level or downwards.
SyncHistories ==
    {<<PositionSample(0, 0, 0, 0), PositionSample(dx, dy, dz, 100)>> :
        dx \in {30, 400}, dy \in {0, -300}, dz \in {0, -30}}

\* The heights the integration leaves a body at, from the desktop's
\* position: resting on the desktop, 0.1 below it, a millimetre further.
SyncHeights == {DESKTOP_THICKNESS, -FallTolerance, -FallTolerance - 1}

\* The velocities the integration leaves a body with: falling, falling
\* fast, falling fast and sideways, rising, at 5 m/s exactly.
SyncVelocities ==
    {Velocity(n, 1) : n \in {<<0, -2, 0>>, <<0, -6, 0>>, <<3, -7, 1>>, <<1, 1, 0>>,
                             <<3, 0, 4>>}}

\* What world.step leaves of a dynamic body of the world: cannon-es
\* integrates its velocity and its position.
Integrate(p, height, velocity) ==
    /\ p \in Range(plates)
    /\ plate[p].body.id # 0
    /\ plate[p].body.type = "DYNAMIC"
    /\ physicsBounds # None
    /\ plate' = [plate EXCEPT ![p].body.position.y =
                                  Val(physicsBounds).position.y + height,
                              ![p].body.velocity = velocity]

SyncNext ==
    \/ \E b \in SyncBounds :
          /\ physicsBounds = None
          /\ SetupDesktopBoundaries(b)
          /\ UNCHANGED <<surfaceVars, scene, placerVars, plateVars, touchVars, appVars>>
    \/ \E call \in ThrowSpawnCalls :
          /\ physicsBounds = Some(call.bounds) /\ plates = <<>>
          /\ SpawnPlates(call.bounds, call.plateCount, call.draws)
          /\ UNCHANGED <<surfaceVars, scene, placerVars, touchVars, appVars>>
    \/ OnSelectStart("left")
          /\ UNCHANGED <<surfaceVars, scene, placerVars, physicsVars, plates, spawnCalls,
                         appVars>>
    \/ \E hit \in {0} \cup {plates[i] : i \in {1} \cap DOMAIN plates} :
          XRFrameDrag(TRUE, hit, None)
            /\ UNCHANGED <<surfaceVars, scene, placerVars, bodyVars, plates, spawnCalls,
                           isDesktopPlaced, session, frameLog>>
    \/ OnSelectEnd("left")
          /\ UNCHANGED <<surfaceVars, scene, placerVars, physicsVars, plates, spawnCalls,
                         appVars>>
    \/ \E p \in {plates[i] : i \in {1} \cap DOMAIN plates},
          positionHistory \in SyncHistories :
          /\ selectedPlate = 0
          /\ OnPlateThrown(p, positionHistory, <<0, 0, 0>>)
          /\ UNCHANGED <<surfaceVars, scene, placerVars, physicsVars, plates, spawnCalls,
                         appVars>>
    \/ \E p \in {plates[i] : i \in {1} \cap DOMAIN plates}, height \in SyncHeights :
       \E velocity \in SyncVelocities \cup {plate[p].body.velocity} :
          /\ Integrate(p, height, velocity)
          /\ UNCHANGED <<surfaceVars, scene, placerVars, physicsVars, plates, spawnCalls,
                         touchVars, appVars>>

SpecSync == InitEnabled /\ [][SyncNext]_vars

\* ---- a plate dragged over the desktop.  As in _placeDesktop the
\* boundaries are set up once, for any of the bounds, then one spawnPlates
\* call puts five plates on the desktop; the pointer finds the first plate
\* and its ray meets the drag plane over the desktop's centre or five
\* metres away along x.
DragSpawnCalls ==
    {[bounds |-> b, plateCount |-> MIN_PLATES,
      draws |-> SpawnDraws(b, MIN_PLATES, MIN_PLATES, FALSE)] : b \in SpawnBounds}

DragPoints ==
    {Some([x |-> x, y |-> 0, z |-> 0]) : x \in {0, 5000}} \cup {None}

DragNext ==
    \/ \E b \in SpawnBounds :
          /\ physicsBounds = None
          /\ SetupDesktopBoundaries(b)
          /\ UNCHANGED <<surfaceVars, scene, placerVars, plateVars, touchVars, appVars>>
    \/ \E call \in DragSpawnCalls :
          /\ physicsBounds = Some(call.bounds) /\ plates = <<>>
          /\ SpawnPlates(call.bounds, call.plateCount, call.draws)
          /\ UNCHANGED <<surfaceVars, scene, placerVars, touchVars, appVars>>
    \/ OnSelectStart("left")
          /\ UNCHANGED <<surfaceVars, scene, placerVars, physicsVars, plates, spawnCalls,
                         appVars>>
    \/ \E hit \in {0} \cup {plates[i] : i \in {1} \cap DOMAIN plates},
          point \in DragPoints :
          XRFrameDrag(TRUE, hit, point)
            /\ UNCHANGED <<surfaceVars, scene, placerVars, bodyVars, plates, spawnCalls,
                           isDesktopPlaced, session, frameLog>>
    \/ OnSelectEnd("left")
          /\ UNCHANGED <<surfaceVars, scene, placerVars, physicsVars, plates, spawnCalls,
                         appVars>>

SpecDrag == InitEnabled /\ [][DragNext]_vars

(***************************************************************************)
(* Properties of the SurfaceDetector (SpecSurface).                        *)
(***************************************************************************)
\* C1: in every state reached by update and setSelectedPlane calls, with
\* planes coming and going, at most one surface is selected.
C1_AtMostOneSelected == Cardinality(selectedPlane) <= 1

\* A select call has just run while two planes hold a mesh.
C1_Witness ==
    /\ detectorOp.op = "select"
    /\ Cardinality(selectedPlane) = 1
    /\ MeshKeys(planeMeshes) = Planes

\* C8: when a surface is already selected, a further setSelectedPlane call
\* is a no-op: the selected surface stays the one chosen first.
C8_SelectWhenSelectedIsNoOp ==
    [][(selectedPlane # {} /\ detectorOp'.op = "select")
          => selectedPlane' = selectedPlane]_vars

\* The position and the geometry update gives a mesh from the plane's pose
\* and polygon (the opacity is the pointing highlight, not the surface).
SurfaceShape(mesh) == [position |-> mesh.position, geometry |-> mesh.geometry]

\* C9: once a surface is selected, a later update call neither retires its
\* mesh nor changes the position or the geometry of it.
C9_SelectedSurfaceFrozen ==
    [][\A p \in selectedPlane :
          (p \in MeshKeys(planeMeshes) /\ detectorOp'.op \in {"update", "skip"})
             => /\ p \in MeshKeys(planeMeshes')
                /\ SurfaceShape(MeshOf(planeMeshes', p))
                     = SurfaceShape(MeshOf(planeMeshes, p))]_vars

\* C10: after every update call that received a plane report, the planes
\* holding a mesh (in planeMeshes and in the scene) are exactly the planes of
\* that report that passed the filter in that call.
C10_ProxiesAreFilteredReport ==
    detectorOp.op = "update"
       => /\ MeshKeys(planeMeshes) = detectorOp.active
          /\ {p \in Planes : PlaneMeshObj(p) \in scene} = detectorOp.active

\* An update whose sweep deleted the mesh of one plane and kept the other's.
C10_Witness ==
    /\ detectorOp.op = "update"
    /\ detectorOp.retired # {}
    /\ detectorOp.active # {}
    /\ detectorOp.retired \cap MeshKeys(planeMeshes) = {}

(***************************************************************************)
(* Properties of the filter (SpecFilter).                                  *)
(***************************************************************************)
\* The area of a plane's polygon in eighths of a square metre (0 without one).
AreaOf(a) == IF a.polygon = None THEN 0 ELSE calculatePolygonArea(Val(a.polygon))

\* C11: update keeps a horizontal plane that has a pose if and only if it is
\* not above 2.0 m and not both below 0.5 m and larger than 3.0 m^2.
C11_FilterKeepsIff ==
    [][\A p \in Planes, a \in FilterSamples :
          (a.orientation = "horizontal" /\ a.pose # None
              /\ SurfaceUpdate(FilterFrame(p, a)))
             => ((p \in MeshKeys(planeMeshes') /\ p \in detectorOp'.active)
                    <=> (~(Val(a.pose) > 20)
                           /\ ~(Val(a.pose) < 5 /\ AreaOf(a) > 24)))]_vars

\* A plane at 0.8 m with an area of 0.5 m^2 has been kept, after a plane was
\* rejected that held a mesh.
C11_Witness ==
    /\ detectorOp.op = "update"
    /\ detectorOp.retired # {}
    /\ \E i \in 1..Len(planeMeshes) :
          planeMeshes[i].position = 8 /\ planeMeshes[i].geometry = Some(PolySmall)

(***************************************************************************)
(* Properties of the pointing (SpecPointing).                              *)
(***************************************************************************)
\* C12: after an update the pointed plane is the plane of a nearest hit
\* among all hits of the pointers that have a pose on the planes that have a
\* mesh, and it is null exactly when there is no such hit.
C12_PointedIsNearestHit ==
    detectorOp.op = "update"
       => /\ (currentPointedPlane = NULL) <=> (detectorOp.hits = {})
          /\ currentPointedPlane # NULL
                => \E h \in detectorOp.hits :
                      /\ h[2] = currentPointedPlane
                      /\ \A g \in detectorOp.hits : h[1] <= g[1]

\* Both planes were hit, at different distances, and the second plane in
\* mesh order is the pointed one.
C12_Witness ==
    /\ detectorOp.op = "update"
    /\ Len(planeMeshes) = 2
    /\ {h[2] : h \in detectorOp.hits} = Planes
    /\ {h[1] : h \in detectorOp.hits} = 1..MaxDistance
    /\ currentPointedPlane = planeMeshes[2].plane

\* C13: at most one mesh has opacity 0.8 and it is the mesh of the pointed
\* plane, every other mesh has opacity 0.5; and an update after which the
\* same plane is pointed leaves the opacity of every mesh it keeps unchanged.
C13_OneHighlightIdempotent ==
    /\ [](/\ Cardinality({i \in 1..Len(planeMeshes) : planeMeshes[i].opacity = 8}) <= 1
          /\ \A i \in 1..Len(planeMeshes) :
                /\ planeMeshes[i].opacity \in {5, 8}
                /\ planeMeshes[i].opacity = 8
                      <=> planeMeshes[i].plane = currentPointedPlane)
    /\ [][(detectorOp'.op = "update" /\ currentPointedPlane' = currentPointedPlane)
            => \A p \in MeshKeys(planeMeshes) \cap MeshKeys(planeMeshes') :
                  MeshOf(planeMeshes', p).opacity = MeshOf(planeMeshes, p).opacity]_vars

\* Of two meshes the pointed one is highlighted, the other is not.
C13_Witness ==
    /\ detectorOp.op = "update"
    /\ Len(planeMeshes) = 2
    /\ currentPointedPlane = planeMeshes[1].plane
    /\ planeMeshes[1].opacity = 8
    /\ planeMeshes[2].opacity = 5
    /\ planeMeshes[2].plane \in {h[2] : h \in detectorOp.hits}

(***************************************************************************)
(* Properties of the DesktopPlacer (SpecPlacer).                           *)
(***************************************************************************)
DesktopsInScene == {o \in scene : o[1] = "desktop"}

\* C2: at most one desktop is ever built, and every placement call that
\* returns gives the first bounds record.
C2_OneDesktopBounds ==
    /\ Cardinality(DesktopsInScene) <= 1
    /\ \A c \in CallIds :
          calls[c].pc = "returned"
             => calls[c].result # None /\ Val(calls[c].result).ref = 1

\* C7: a placement call made before placement without an obtainable pose
\* throws and changes nothing of the placer or the scene; a call made with a
\* pose does not throw, and a call that returned gave a bounds record of a
\* placed desktop.
C7_NoPoseFailsCleanly ==
    [][\A c \in CallIds :
          /\ (calls[c].pc = "idle" /\ calls'[c].pc # "idle"
                 /\ calls'[c].pose = None /\ ~isPlaced)
                => /\ calls'[c].pc = "threw"
                   /\ UNCHANGED <<desktop, desktopBounds, isPlaced, anchor,
                                  nextDesktop, scene>>
          /\ (calls[c].pc = "idle" /\ calls'[c].pc # "idle"
                 /\ calls'[c].pose # None)
                => calls'[c].pc \in {"awaitAnchor", "returned"}
          /\ calls'[c].pc = "returned"
                => isPlaced' /\ calls'[c].result # None]_vars

\* A call without a pose threw, and the next call, made with a pose,
\* returned the bounds of the one desktop built.
C7_Witness ==
    \E c, d \in CallIds :
        /\ c < d
        /\ calls[c].pc = "threw"
        /\ calls[d].pc = "returned"
        /\ calls[d].pose # None
        /\ calls[d].result = desktopBounds
        /\ desktopBounds # None
        /\ isPlaced
        /\ Cardinality(DesktopsInScene) = 1

\* C14: a desktop bounds record exists if and only if a surface has been
\* selected.
C14_BoundsIffSelected == (desktopBounds # None) <=> (selectedPlane # {})

(***************************************************************************)
(* Properties of the PhysicsWorld (SpecPhysics).                           *)
(***************************************************************************)
BoundaryBodies == {b \in world : b.role \in {"floor", "wall"}}

\* C4: after any number of setupDesktopBoundaries calls the world holds
\* exactly one boundary set: the floor and the four walls of the latest
\* call, and no body of an earlier call.
C4_OneBoundarySet ==
    boundaryCalls > 0
       => /\ BoundaryBodies = Range(desktopBodies)
          /\ Cardinality(BoundaryBodies) = WallCount + 1
          /\ Cardinality({b \in BoundaryBodies : b.role = "floor"}) = 1
          /\ Cardinality({b \in BoundaryBodies : b.role = "wall"}) = WallCount
          /\ \A b \in BoundaryBodies : b.gen = boundaryCalls

\* The boundaries have been built twice, among plate bodies.
C4_Witness ==
    /\ boundaryCalls >= 2
    /\ plateBodies # <<>>

\* C15: every plate body carries the one plate material the contact
\* materials refer to, every floor and wall body the one desktop material.
C15_OneMaterialPerClass ==
    /\ \A b \in world :
          /\ b.role = "plate" => b.material = PlateMaterial
          /\ b.role \in {"floor", "wall"} => b.material = DesktopMaterial
    /\ \A p \in DOMAIN plate : plate[p].body.material = PlateMaterial
    /\ \A b \in world : \E c \in ContactMaterials : b.material \in {c[1], c[2]}
    /\ Cardinality({b.material : b \in world}) <= 2

\* The world holds the bodies of several plates, a floor and walls.
C15_Witness ==
    /\ Len(plateBodies) >= MIN_PLATES
    /\ \E b \in world : b.role = "floor"
    /\ \E b \in world : b.role = "wall"
    /\ \E b \in world : b.role = "plate"

(***************************************************************************)
(* Properties of the plates under the gesture handler (SpecGesture,        *)
(* SpecGestureFair).                                                       *)
(***************************************************************************)
\* C3: a body in kinematic mode has collision response enabled.
C3_KinematicKeepsCollisionResponse ==
    \A p \in DOMAIN plate :
        plate[p].body.type = "KINEMATIC" => plate[p].body.collisionResponse

Phase ==
    IF selectedPlate # 0 THEN "dragging"
    ELSE IF isSelecting THEN "selecting"
    ELSE "idle"

\* C16: the phase moves only idle -> selecting -> dragging -> (releasing) ->
\* idle, or selecting -> idle; selectstart enters selecting; a frame in
\* selecting whose ray has a pose and hits a plate binds that plate and makes
\* it, and no other, kinematic through onPlateSelected; nothing binds a plate
\* outside selecting, and no call of the handler in dragging invokes
\* onPlateSelected again.
C16_PhaseOrder ==
    [][/\ <<Phase, Phase'>> \in
            {<<"idle", "idle">>, <<"idle", "selecting">>,
             <<"selecting", "selecting">>, <<"selecting", "dragging">>,
             <<"selecting", "idle">>,
             <<"dragging", "dragging">>, <<"dragging", "idle">>}
       /\ (pressed' # pressed /\ pressed \subseteq pressed' /\ Phase = "idle")
             => Phase' = "selecting"
       /\ \A hit \in Range(plates) :
             (Phase = "selecting" /\ inputSource # NULL /\ TouchUpdate(TRUE, hit))
                => /\ selectedPlate' = hit
                   /\ plate'[hit] = setKinematic(plate[hit], TRUE)
                   /\ touchEvent'.name = "onPlateSelected"
       /\ (Phase = "selecting" /\ Phase' = "dragging")
             => /\ touchEvent'.name = "onPlateSelected"
                /\ pressed' = pressed
                /\ \A p \in DOMAIN plate :
                      plate'[p] = IF p = selectedPlate'
                                  THEN setKinematic(plate[p], TRUE) ELSE plate[p]
       /\ (Phase = "dragging" /\ Phase' = "dragging")
             => /\ selectedPlate' = selectedPlate
                /\ (pointerLost' = pointerLost /\ plates' = plates)
                      => touchEvent'.name # "onPlateSelected"
                /\ \A p \in DOMAIN plate : plate'[p] = plate[p]
       /\ (Phase = "dragging" /\ Phase' = "idle")
             => /\ touchEvent'.name = "onPlateReleased"
                /\ plate'[selectedPlate] = setKinematic(plate[selectedPlate], FALSE)
       /\ \A p \in DOMAIN plate' : plate'[p].isDragging <=> p = selectedPlate']_vars

\* A plate was bound after a frame in selecting that hit nothing, while
\* both input sources are held.
C16_Witness ==
    /\ Phase = "dragging"
    /\ touchEvent.name = "onPlateSelected"
    /\ pressed = InputSources
    /\ plate[selectedPlate].isDragging

\* C6: when the pointer of a dragging session is lost (no pose any more, no
\* release), the session eventually leaves dragging: the handler is idle
\* again and the plate is back in dynamic mode.
C6_LostPointerTimesOut ==
    (selectedPlate # 0 /\ inputSource \in pointerLost)
       ~> (selectedPlate = 0 /\ \A p \in DOMAIN plate : plate[p].body.type = "DYNAMIC")


(***************************************************************************)
(* Properties of the session as main.js drives it (SpecSession).           *)
(***************************************************************************)
\* The place of a stage in the order catalog ingestion, pointer selection,
\* gesture update, physics step, visual sync.
StageRank(stage) ==
    CASE stage = "catalogIngestion" -> 1
      [] stage = "pointerSelection" -> 2
      [] stage = "gestureUpdate" -> 3
      [] stage = "physicsStep" -> 4
      [] stage = "visualSync" -> 5

\* C17: the stages a frame callback ran are in the order catalog ingestion,
\* pointer selection, gesture update, physics step, visual sync: a stage
\* that ran earlier in the frame has the lower rank.
C17_FrameOrder ==
    \A i, j \in DOMAIN frameLog :
        i < j => StageRank(frameLog[i]) < StageRank(frameLog[j])

\* The bodies of role plate in the world.
WorldPlateBodies == {b \in world : b.role = "plate"}

Count(list, id) == Cardinality({i \in DOMAIN list : list[i] = id})

\* C19: every plate the spawner holds has a non-null body of its own,
\* which is in the world and once on the world's list of plate bodies; the
\* plate bodies of the world and of the list are exactly those of the plates
\* held; a plate no longer held has a null handle and no body in the world.
C19_LivePlatesOwnOneBody ==
    /\ \A i \in DOMAIN plates :
          /\ Count(plates, plates[i]) = 1
          /\ plate[plates[i]].body.id = plates[i]
          /\ plate[plates[i]].body.id # 0
          /\ PlateBodyRef(plate[plates[i]].body.id) \in world
          /\ Count(plateBodies, plate[plates[i]].body.id) = 1
    /\ WorldPlateBodies = {PlateBodyRef(plate[plates[i]].body.id) : i \in DOMAIN plates}
    /\ Range(plateBodies) = {plate[plates[i]].body.id : i \in DOMAIN plates}
    /\ \A p \in DOMAIN plate \ Range(plates) :
          /\ plate[p].body = NullBody
          /\ PlateBodyRef(p) \notin world
          /\ p \notin Range(plateBodies)

\* Plates are held, one of them is being dragged.
C19_Witness ==
    /\ session = "running"
    /\ Len(plates) = MIN_PLATES
    /\ selectedPlate \in Range(plates)
    /\ plate[selectedPlate].body.type = "KINEMATIC"
    /\ PlateBodyRef(selectedPlate) \in world

(***************************************************************************)
(* Properties of PlateSpawner.spawnPlates (SpecPhysics).                   *)
(***************************************************************************)
\* The footprints of two plates, PLATE.MAX_WIDTH x PLATE.MAX_DEPTH boxes
\* centred on the positions, have a point in common.
FootprintsIntersect(a, b) ==
    /\ Abs(a.x - b.x) < PLATE_MAX_WIDTH
    /\ Abs(a.z - b.z) < PLATE_MAX_DEPTH

\* C21: the positions one spawnPlates call produces are pairwise distinct
\* and no two of the plates' footprints intersect.
C21_SpawnedFootprintsDisjoint ==
    [][\A call \in PhysicsSpawnCalls :
           (/\ spawnCalls' = spawnCalls + 1
            /\ SpawnPlates(call.bounds, call.plateCount, call.draws))
              => \A ps \in {SpawnPositions(<<>>, call.draws, 1)} :
                    \A i, j \in DOMAIN ps :
                       i < j => /\ ps[i] # ps[j]
                                /\ ~FootprintsIntersect(ps[i], ps[j])]_vars

\* cos and sin of a yaw that is a multiple of 90 degrees
CosDeg(d) == CASE d % 360 = 0 -> 1 [] d % 360 = 90 -> 0
               [] d % 360 = 180 -> -1 [] d % 360 = 270 -> 0
SinDeg(d) == CASE d % 360 = 0 -> 0 [] d % 360 = 90 -> 1
               [] d % 360 = 180 -> 0 [] d % 360 = 270 -> -1

\* The world position in the frame of the desktop, whose floor and walls
\* setupDesktopBoundaries turns by bounds.quaternion about bounds.position.
DesktopLocal(bounds, pos) ==
    LET dx == pos.x - bounds.position.x
        dz == pos.z - bounds.position.z
        yaw == bounds.quaternion.yaw
    IN [x |-> dx * CosDeg(yaw) - dz * SinDeg(yaw),
        z |-> dx * SinDeg(yaw) + dz * CosDeg(yaw)]

\* The position is inside the rectangle the four walls enclose.
InsideWalls(bounds, pos) ==
    /\ DesktopLocal(bounds, pos).x >= -(bounds.width \div 2)
    /\ DesktopLocal(bounds, pos).x <= bounds.width \div 2
    /\ DesktopLocal(bounds, pos).z >= -(bounds.depth \div 2)
    /\ DesktopLocal(bounds, pos).z <= bounds.depth \div 2

\* C22: every position spawnPlates produces is inside the rectangle the
\* boundary walls enclose, whatever the size and the yaw of the bounds.
C22_SpawnedInsideWalls ==
    [][\A call \in PhysicsSpawnCalls :
           (/\ spawnCalls' = spawnCalls + 1
            /\ SpawnPlates(call.bounds, call.plateCount, call.draws))
              => \A ps \in {SpawnPositions(<<>>, call.draws, 1)} :
                    \A i \in DOMAIN ps :
                       InsideWalls(call.bounds,
                                   SpawnWorldPosition(call.bounds, ps[i]))]_vars

\* C20: a spawnPlates call that asks for n plates (5 to 8) adds exactly n
\* plates to the spawner, whatever the bounds and the draws.
C20_SpawnsRequestedCount ==
    [][\A call \in PhysicsSpawnCalls :
           (/\ spawnCalls' = spawnCalls + 1
            /\ SpawnPlates(call.bounds, call.plateCount, call.draws))
              => Len(plates') = Len(plates) + call.plateCount]_vars

(***************************************************************************)
(* The release of a touch and the throw.                                   *)
(***************************************************************************)
\* The samples recorded since the touch began show no displacement: the
\* last one is where the first one (touchStartPos) was.
ZeroDisplacement ==
    /\ touchStartPos # None
    /\ touchHistory # <<>>
    /\ touchHistory[Len(touchHistory)].x = Val(touchStartPos).x
    /\ touchHistory[Len(touchHistory)].y = Val(touchStartPos).y

\* C23: a release of a selected plate whose recorded samples show no
\* displacement from the first to the last is reported as a tap, and the
\* release leaves the plate's velocity as it was: no launch velocity is
\* applied.
C23_ZeroDisplacementIsTap ==
    [][(/\ Finger \in pressed /\ Finger \notin pressed'
        /\ selectedPlate # 0
        /\ ZeroDisplacement)
          => /\ touchEvent' = [name |-> "onPlateReleased", gestureType |-> "tap"]
             /\ plate'[selectedPlate].body.velocity = ZeroVelocity
             /\ plate'[selectedPlate].body.angularVelocity = <<0, 0, 0>>]_vars

\* A plate is held, samples were recorded after the first one, and the last
\* one is back where the touch began.
C23_Witness ==
    /\ Finger \in pressed
    /\ selectedPlate # 0
    /\ Len(touchHistory) = TOUCH_SAMPLES
    /\ touchHistory[1].x # Val(touchStartPos).x
    /\ ZeroDisplacement


\* The speed of the velocity v is at most max m/s (on the squares).
SpeedAtMost(v, max) == Dot(v.n) * v.s2[1] <= max * max * v.d * v.d * v.s2[2]

\* C24: the linear velocity a plate's body holds, which only throwPlate
\* sets to anything but zero, has a speed of at most MAX_THROW_VELOCITY,
\* whatever touch history or release velocity throwPlate was given.
C24_ThrowSpeedCapped ==
    \A p \in DOMAIN plate : SpeedAtMost(plate[p].body.velocity, MAX_THROW_VELOCITY)

\* A plate was thrown faster than the cap and holds the capped velocity.
C24_Witness ==
    \E p \in DOMAIN plate :
        /\ touchEvent.name = "onPlateThrown"
        /\ plate[p].body.velocity.s2 # <<1, 1>>
        /\ Dot(plate[p].body.velocity.n) >
              MAX_THROW_VELOCITY * MAX_THROW_VELOCITY
                 * plate[p].body.velocity.d * plate[p].body.velocity.d


\* The vertical component of v is smaller in magnitude than the horizontal
\* one (on the squares; the cap scales the components alike).
VerticalBelowHorizontal(v) == v.n[2] * v.n[2] < v.n[1] * v.n[1] + v.n[3] * v.n[3]

\* C25: after a throw, the launch velocity the thrown plate holds (when it
\* is not zero) has a vertical component strictly smaller in magnitude than
\* its horizontal component.
C25_LaunchMostlyHorizontal ==
    touchEvent.name = "onPlateThrown"
       => \A p \in DOMAIN plate :
             plate[p].body.velocity # ZeroVelocity
                => VerticalBelowHorizontal(plate[p].body.velocity)


(***************************************************************************)
(* The size and the orientation of the placed desktop.                     *)
(***************************************************************************)
\* clamp(0.9 x extent, MIN_SIZE, MAX_SIZE), by cases on ten times the value
ClampedExtent(extent) ==
    IF 9 * extent < 10 * DESKTOP_MIN_SIZE THEN DESKTOP_MIN_SIZE
    ELSE IF 9 * extent > 10 * DESKTOP_MAX_SIZE THEN DESKTOP_MAX_SIZE
    ELSE (9 * extent) \div 10

\* The bounds b have the width and depth the claim gives for detectedSize,
\* within the limits, and the local extents of half the width and depth.
SizedFor(b, detectedSize) ==
    /\ IF detectedSize # None /\ Val(detectedSize).width > 0
                              /\ Val(detectedSize).depth > 0
       THEN /\ b.width = ClampedExtent(Val(detectedSize).width)
            /\ b.depth = ClampedExtent(Val(detectedSize).depth)
       ELSE /\ b.width = DefaultWidth
            /\ b.depth = DefaultDepth
    /\ b.width >= DESKTOP_MIN_SIZE /\ b.width <= DESKTOP_MAX_SIZE
    /\ b.depth >= DESKTOP_MIN_SIZE /\ b.depth <= DESKTOP_MAX_SIZE
    /\ b.minX = -b.maxX /\ 2 * b.maxX = b.width
    /\ b.minZ = -b.maxZ /\ 2 * b.maxZ = b.depth

\* C26: a placement that builds the desktop stores bounds whose width and
\* depth are clamp(0.9 x detected extent, MIN_SIZE, MAX_SIZE) when both
\* detected extents are positive and 0.8 x 0.6 otherwise, both within
\* [0.4, 2.0], with local extents of minus and plus half the width and depth.
C26_BoundsSized ==
    [][\A c \in CallIds, pose \in PlacementPoses, size \in DetectedSizes :
          (/\ desktopBounds' # desktopBounds
           /\ PlaceDesktop(c, pose, size) \/ PlaceDesktopOnPlane(c, pose, size))
             => /\ desktopBounds' # None
                /\ SizedFor(Val(desktopBounds'), size)]_vars

\* A desktop stands whose width was raised to the lower limit and whose
\* depth was cut to the upper one.
C26_Witness ==
    /\ desktopBounds # None
    /\ Val(desktopBounds).width = DESKTOP_MIN_SIZE
    /\ Val(desktopBounds).depth = DESKTOP_MAX_SIZE
    /\ \E c \in CallIds : calls[c].pc = "awaitAnchor"

C28_NothingStaleAfterUpdate ==
    detectorOp.op \in {"update", "skip"}
       => /\ MeshKeys(planeMeshes) \subseteq detectorOp.active
          /\ currentPointedPlane # NULL
                => \E h \in detectorOp.hits : h[2] = currentPointedPlane
          /\ \A k \in 1..Len(planeMeshes) :
                planeMeshes[k].opacity = OpacityHighlight
                   => \E h \in detectorOp.hits : h[2] = planeMeshes[k].plane


(***************************************************************************)
(* The physics step.                                                       *)
(***************************************************************************)
\* C29: the sub-steps of every step(deltaTime) call each advance the world
\* by the fixed step of 1/60 s, and there are at most MAX_SUB_STEPS of
\* them, whatever deltaTime is.
C29_FixedStepCapped ==
    /\ Len(stepLog) <= MAX_SUB_STEPS
    /\ \A i \in 1..Len(stepLog) : stepLog[i] = TIME_STEP

\* A call ran as many sub-steps as allowed and left time under one step
\* in the accumulator.
C29_Witness ==
    /\ Len(stepLog) = MAX_SUB_STEPS
    /\ accumulator # 0
    /\ boundaryCalls > 0


(***************************************************************************)
(* The kinematic mode of a plate.                                          *)
(***************************************************************************)
\* The plate pl is dragged exactly when its body is kinematic, and a
\* kinematic body has no linear or angular velocity.
DraggingIsKinematic(pl) ==
    /\ pl.isDragging <=> pl.body.type = "KINEMATIC"
    /\ ~pl.isDragging <=> pl.body.type = "DYNAMIC"
    /\ pl.body.type = "KINEMATIC"
          => /\ pl.body.velocity = ZeroVelocity
             /\ pl.body.angularVelocity = <<0, 0, 0>>

\* C30: in every state each plate that has a body is dragged exactly when
\* the body is kinematic, and then its velocities are zero; a selection
\* (setKinematic(true)) leaves the plate kinematic with zero velocities, a
\* release or a throw (setKinematic(false)) leaves it dynamic.
C30_DraggingIffKinematic ==
    /\ [](\A p \in DOMAIN plate : plate[p].body.id # 0 => DraggingIsKinematic(plate[p]))
    /\ [][/\ touchEvent'.name = "onPlateSelected" /\ selectedPlate' # selectedPlate
             => /\ plate'[selectedPlate'].body.type = "KINEMATIC"
                /\ plate'[selectedPlate'].body.velocity = ZeroVelocity
                /\ plate'[selectedPlate'].body.angularVelocity = <<0, 0, 0>>
          /\ selectedPlate # 0 /\ selectedPlate' = 0
             => plate'[selectedPlate].body.type = "DYNAMIC"]_vars

\* A plate is held and kinematic while another call of the handler has
\* recorded samples of the touch.
C30_Witness ==
    /\ selectedPlate # 0
    /\ plate[selectedPlate].isDragging
    /\ plate[selectedPlate].body.type = "KINEMATIC"
    /\ Len(touchHistory) > 1


(***************************************************************************)
(* Properties of Plate.update under the frame loop (SpecSync).             *)
(***************************************************************************)
\* The vectors of two velocities point the same way.
SameDirection(a, b) ==
    /\ a.n[2] * b.n[3] = a.n[3] * b.n[2]
    /\ a.n[3] * b.n[1] = a.n[1] * b.n[3]
    /\ a.n[1] * b.n[2] = a.n[2] * b.n[1]
    /\ a.n[1] * b.n[1] + a.n[2] * b.n[2] + a.n[3] * b.n[3] > 0

\* The same, but for the downward part of the first, which the second lacks.
SameDirectionLevelled(a, b) ==
    /\ b.n[2] = 0
    /\ a.n[3] * b.n[1] = a.n[1] * b.n[3]
    /\ a.n[1] * b.n[1] + a.n[3] * b.n[3] >= 0
    /\ (a.n[1] # 0 \/ a.n[3] # 0) => (b.n[1] # 0 \/ b.n[3] # 0)

\* A frame ran Plate.update on plate p, which was not being dragged and is
\* not picked up by the same frame's touchHandler.update.
Synced(p) ==
    /\ lastFrameTime' # lastFrameTime
    /\ p \in Range(plates)
    /\ ~plate[p].isDragging
    /\ ~plate'[p].isDragging

C32_ThrownSpeedKept ==
    [][\A p \in Range(plates) :
          (/\ Synced(p)
           /\ SpeedAtMost(plate[p].body.velocity, MAX_THROW_VELOCITY)
           /\ ~FellBelow(plate[p].body, physicsBounds))
             => plate'[p].body.velocity = plate[p].body.velocity]_vars


\* C33: after every Plate.update of a plate that is not being dragged and
\* whose body was more than 0.1 below the desktop's position, the body is
\* 0.1 above that position and its vertical velocity is not downward; a
\* body that was not that far below keeps its position and the direction
\* of its velocity.
C33_FallThroughCorrected ==
    [][\A p \in Range(plates) :
          Synced(p) =>
             IF FellBelow(plate[p].body, physicsBounds)
             THEN /\ plate'[p].body.position =
                        [plate[p].body.position EXCEPT
                            !.y = Val(physicsBounds).position.y + FallTolerance]
                  /\ plate'[p].body.velocity.n[2] >= 0
             ELSE /\ plate'[p].body.position = plate[p].body.position
                  /\ plate'[p].body.velocity.n = plate[p].body.velocity.n
                  /\ plate'[p].body.velocity.d = plate[p].body.velocity.d]_vars

\* Plate.update has put a body back: the mesh shows the height the body
\* had, more than 0.1 below the desktop, the body is 0.1 above it.
C33_Witness ==
    /\ physicsBounds # None
    /\ \E p \in Range(plates) :
          /\ ~plate[p].isDragging
          /\ plate[p].meshPosition.y < Val(physicsBounds).position.y - FallTolerance
          /\ plate[p].body.position.y = Val(physicsBounds).position.y + FallTolerance
          /\ plate[p].body.velocity.n[2] >= 0


(***************************************************************************)
(* The release of a touch that moved (SpecThrow).                          *)
(***************************************************************************)
\* The samples recorded since the touch began show a displacement, from the
\* first (touchStartPos) to the last, that is not below the tap threshold.
NotBelowTapThreshold ==
    /\ touchStartPos # None
    /\ touchHistory # <<>>
    /\ LET dx == touchHistory[Len(touchHistory)].x - Val(touchStartPos).x
           dy == touchHistory[Len(touchHistory)].y - Val(touchStartPos).y
       IN dx * dx + dy * dy >= TAP_THRESHOLD * TAP_THRESHOLD

\* C34: a release of a selected plate whose total displacement is not below
\* the tap threshold is treated as a throw: the launch velocity computed
\* from the recorded samples is applied to the plate.
C34_ReleaseBeyondTapThrows ==
    [][(/\ Finger \in pressed /\ Finger \notin pressed'
        /\ selectedPlate # 0
        /\ NotBelowTapThreshold)
          => /\ touchEvent' = [name |-> "onPlateThrown", gestureType |-> "throw"]
             /\ plate'[selectedPlate].body.velocity =
                   ThrowVelocity([kind |-> "history", history |-> touchHistory])]_vars


(***************************************************************************)
(* The positions a drag writes (SpecDrag).                                 *)
(***************************************************************************)
\* The position is inside the bounds shrunk by the edge margin, measured in
\* the frame of the desktop (turned by bounds.quaternion).
InsideShrunk(bounds, pos) ==
    /\ DesktopLocal(bounds, pos).x >= bounds.minX + DragPadding
    /\ DesktopLocal(bounds, pos).x <= bounds.maxX - DragPadding
    /\ DesktopLocal(bounds, pos).z >= bounds.minZ + DragPadding
    /\ DesktopLocal(bounds, pos).z <= bounds.maxZ - DragPadding

\* This step is a frame whose touchHandler.update moved the dragged plate.
DragWrites ==
    /\ lastFrameTime' # lastFrameTime
    /\ selectedPlate # 0
    /\ physicsBounds # None
    /\ touchEvent' = [name |-> "onPlateDraggingXR", gestureType |-> "none"]
    /\ plate'[selectedPlate].meshPosition # plate[selectedPlate].meshPosition

\* C35: every position a drag update writes is inside the bounds shrunk by
\* the edge margin, in the frame of the desktop, and at the drag height
\* above the desktop, whenever the plate's mesh was inside that region.
C35_DragStaysInside ==
    [][(/\ DragWrites
        /\ InsideShrunk(Val(physicsBounds), plate[selectedPlate].meshPosition))
          => /\ InsideShrunk(Val(physicsBounds), plate'[selectedPlate].body.position)
             /\ plate'[selectedPlate].body.position.y =
                   Val(physicsBounds).centerY + DragLiftXR
             /\ plate'[selectedPlate].meshPosition =
                   plate'[selectedPlate].body.position]_vars


(***************************************************************************)
(* The velocity of a release (SpecThrow).                                  *)
(***************************************************************************)
\* The most recent samples of a history, five at most.
RecentWindow(history) ==
    SubSeq(history, Max(1, Len(history) - 4), Len(history))

\* The history has fewer than two samples or its window spans no time.
NoTimeSpan(history) ==
    \/ Len(history) < 2
    \/ RecentWindow(history)[1].time = history[Len(history)].time

\* Samples older than the ones of a history.
OlderSamples ==
    {PositionSample(x, y, z, time) : x \in {0, 700}, y \in {0, -700}, z \in {500},
                                     time \in {-50, 0}}

ZeroVelocity3D == [x |-> 0, y |-> 0, z |-> 0, d |-> 1]

C37_PlacementEffectsOnce ==
    /\ boundaryCalls <= 1
    /\ spawnCalls <= 1
    /\ Len(plates) <= MAX_PLATES
    /\ Cardinality(DOMAIN plate) <= MAX_PLATES


(***************************************************************************)
(* The placer's flag and its bounds (SpecPlacer).                          *)
(***************************************************************************)
\* C38: in every reachable state of the DesktopPlacer isDesktopPlaced() is
\* true exactly when getBounds() is not null, also while the creation of
\* the anchor is pending.
C38_PlacedIffBounds ==
    isPlaced <=> desktopBounds # None


(***************************************************************************)
(* The pointer of a drag (SpecGesture).                                    *)
(***************************************************************************)
\* The input sources whose selectstart or selectend this step delivers.
SelectEventSources == (pressed' \ pressed) \cup (pressed \ pressed')

\* C39: while a plate is being dragged, a selectstart or selectend of an
\* input source other than the one that started the drag neither gives the
\* drag to that source nor ends it.
C39_DragKeepsItsPointer ==
    [][(/\ selectedPlate # 0
        /\ inputSource # NULL
        /\ SelectEventSources # {}
        /\ inputSource \notin SelectEventSources)
          => /\ inputSource' = inputSource
             /\ selectedPlate' = selectedPlate
             /\ plate'[selectedPlate].isDragging]_vars

====
